---- MODULE Spec2Model ----
(***************************************************************************)
(* Model of the data-and-scoring engine of momentumCalculator:             *)
(*   - the price poller (services/data-service/price_poller.py),           *)
(*   - the generic poller (services/data-service/poller_service.py),       *)
(*   - the attribute poller (services/data-service/attribute_poller.py),   *)
(*   - the ledger / tracker / score store they write through               *)
(*     (backend/models/data_fetcher.py, update_tracker.py,                 *)
(*      momentum_storage.py, momentum.py).                                 *)
(* Spec      : the price update cycle (polling loop and manual trigger).   *)
(* SpecAttr  : the attribute update cycle of one replica, its rate-limit   *)
(*             cooldown and the manual attribute updates.                  *)
(* SpecScore : the scoring paths (generic poller, targeted updates, manual *)
(*             price cycles) with store errors and NaN rows.               *)
(* SpecReset : the retry ledger under manual cycles and the admin reset.   *)
(* SpecAttr2 : two replicas of the attribute poller on one database.       *)
(* SpecPipeline, SpecRanking : the pipeline executor and the ranking       *)
(*             endpoint of services/strategy-service/main.py.              *)
(* SpecBestDate : MomentumStorage.get_best_momentum_date.                  *)
(* SpecMarketHours : backend/utils/market_hours.py.                        *)
(***************************************************************************)
EXTENDS Integers, Sequences, FiniteSets, TLC

\* ------------------------------------------------------------------------
\* Bounds of the model
\* ------------------------------------------------------------------------
\* days 1..MaxDay are simulated; bars dated 0 may exist before the first day
MaxDay == 2
\* Python weekday() of day 1 (4 = Friday, so day 2 is a Saturday)
FirstWeekday == 4
\* the batch download asks for the last FetchBack days (5 in the source)
FetchBack == 2
\* retry_count is unbounded in the source; updates stop being taken here
RetryCap == 6
\* the clock of the attribute poller runs over minutes 0..MaxNow
MaxNow == 5
\* AttributePoller.batch_size (50 in the source)
BatchSize == 1
\* attribute updates stop being taken at this retry_count
AttrRetryCap == 2
\* a pipeline request has 1..MaxStages stages
MaxStages == 2
\* a stage requests an output count in 0..MaxCount
MaxCount == 2
\* daily volatilities are 0..MaxVol
MaxVol == 2
\* top_n of a ranking request is 1..MaxTopN (1..100 in the source)
MaxTopN == 2
\* the score store holds rows of at most MaxDates calculation dates
MaxDates == 31
\* a price history holds at most MaxBars bars
MaxBars == 253
\* a standard deviation of a history lies in 0..MaxStd
MaxStd == 1
\* the provider returns at most MaxFrame daily bars in one frame
MaxFrame == 1
\* the values of a bar lie in 1..MaxPrice
MaxPrice == 2
\* the fetches of a stock by attribute cycles are counted up to FetchCountCap
FetchCountCap == 6
\* a poller has at most MaxLoops polling loops that have not returned
MaxLoops == 2
\* tickerprice holds at most MaxCopies rows of one stock and date
MaxCopies == 2

\* ------------------------------------------------------------------------
\* Program constants
\* ------------------------------------------------------------------------
\* PricePoller.max_retries: "Total attempts: initial + 4 retries"
max_retries == 5
\* the literal 5 of the ledger queries of DataUpdater (retry_count >= 5)
MAX_RETRIES == 5
\* timedelta(minutes=5) of the rate-limit cooldown
COOLDOWN_MINUTES == 5
\* execute_pipeline: the defaults of market_cap_limit and output_count
DEFAULT_MARKET_CAP_LIMIT == 1000
DEFAULT_OUTPUT_COUNT == 50
\* execute_pipeline: debug.inputSymbols is input_symbols[:100]
DEBUG_INPUT_SYMBOLS == 100
\* calculate_strategy_scores_v2: the default of limit
DEFAULT_LIMIT == 50
\* get_best_momentum_date: "a good number of stocks (e.g., > 1000)"
GOOD_STOCK_COUNT == 1000
\* MarketHours.MARKET_OPEN_TIME, time(9, 15), in minutes after midnight
MARKET_OPEN_TIME == 9 * 60 + 15
\* MarketHours.MARKET_CLOSE_TIME, time(15, 30), in minutes after midnight
MARKET_CLOSE_TIME == 15 * 60 + 30

\* the ticker symbols of the model
StockSet == {"A", "B", "C"}

\* SERVICE_INSTANCE of a replica of the attribute poller
Instances == {"1", "2"}

\* the two DataUpdater objects of the price side; each owns a MomentumService
Updaters == {"price", "generic"}

None == -1

VARIABLES
    stockmetadata,     \* the stocks of stockmetadata, by market_cap DESC
    day,               \* today (date.today() / IST date)
    afterClose,        \* current IST time >= 15:30
    tickerprice,       \* set of [stock, date]
    momentum_scores,   \* set of [stock, calculation_date, score]
    pending,           \* pending_operations rows in created_at order
    tracker,           \* stock_update_tracker: stock -> [status, last_updated]
    cache,             \* MomentumService.cache per updater: stock -> score | None
    is_running,        \* PricePoller.is_running
    cyc,               \* position inside _run_price_update_cycle
    fresh,             \* history: stocks without a prior 'prices' row at
                       \* cycle start that failed in every wave so far
    computedToday,     \* history: score computations per stock today
    lastWave,          \* history: what the step just taken did, when it
                       \* was an update pass or a cycle start
    last_price_date,   \* stockmetadata.last_price_date: stock -> date | None
    cleanToday,        \* history: the last cycle that finished today
                       \* reported success for every stock it processed
    now,               \* datetime.now() in minutes
    attrs,             \* stockmetadata: stock -> the attribute groups set
    apoll,             \* AttributePoller fields of each replica
    acyc,              \* position inside _run_attribute_update_cycle
    lastBatch,         \* history: what the attribute step just taken did
    fetchers,          \* history: the replicas whose cycles fetched a stock
                       \* since its 'attributes' pending row was created
    strategy_scores,   \* what each scoring loop of the strategy service
                       \* derives from the price history of a stock:
                       \* strategy -> stock -> score | None (stock skipped)
    pipeline_result,   \* the response of the last POST /pipeline/execute
    daily_volatility,  \* std of the daily returns of a stock over its last
                       \* 252 bars | None (no or too little price data)
    scores_response,   \* the response of the last GET /strategies/{name}
    score_counts,      \* momentum_scores grouped by calculation_date:
                       \* rows [calculation_date, stock_count], latest first
    best_date,         \* the answer of get_best_momentum_date
    ist,               \* the current instant in IST: [weekday, minute]
    market_decision,   \* the answer of the market-hours question asked
    momentum_config,   \* _momentum_config.weights, in units of 1/One
    config_call,       \* the last configuration call and whether it succeeded
    service_cache,     \* MomentumService.cache of the momentum service
    last_score,        \* the scores returned since the last configuration call
    price_history,     \* the price history handed to a strategy of the Scoring Library
    library_result,    \* what the strategy reports for that history
    provider_frame,    \* the daily bars ticker.history returns for one stock
    stored_bars,       \* the tickerprice rows written from that frame
    upstream,          \* the attribute groups the provider supplies for a stock, now and later
    cycle_fetches,     \* history: the fetches of a stock by attribute cycles, up to FetchCountCap
    poller_is_running, \* self.is_running of each poller object
    polling_loops,     \* the polling loops of each poller object that have not returned
    price_rows,        \* tickerprice: stock -> date -> the number of rows of that stock and date
    unique_stock_date, \* tickerprice was created with UNIQUE(stock, date)
    single_result      \* history: what the last update_stock_price_data call did

vars == <<stockmetadata, day, afterClose, tickerprice, momentum_scores, pending, tracker,
          cache, is_running, cyc, fresh, computedToday, lastWave, cleanToday,
          last_price_date,
          now, attrs, apoll, acyc, lastBatch, fetchers,
          strategy_scores, pipeline_result, daily_volatility, scores_response,
          score_counts, best_date, ist, market_decision,
          momentum_config, config_call, service_cache, last_score,
          price_history, library_result,
          provider_frame, stored_bars,
          upstream, cycle_fetches,
          poller_is_running, polling_loops,
          price_rows, unique_stock_date, single_result>>

\* the state of the read side (strategy service, score store, market hours)
readVars == <<strategy_scores, pipeline_result, daily_volatility, scores_response,
              score_counts, best_date, ist, market_decision,
          momentum_config, config_call, service_cache, last_score,
          price_history, library_result,
          provider_frame, stored_bars,
          upstream, cycle_fetches,
          poller_is_running, polling_loops,
          price_rows, unique_stock_date, single_result>>

\* the state of the request handlers of the strategy service and the
\* market-hours helpers
queryVars == <<strategy_scores, pipeline_result, daily_volatility, scores_response,
               score_counts, best_date, ist, market_decision>>

\* the state of the momentum service
configVars == <<momentum_config, config_call, service_cache, last_score>>

\* the state of the Scoring Library
libraryVars == <<price_history, library_result>>

\* the state of one price frame on its way into tickerprice
barVars == <<provider_frame, stored_bars>>

\* the provider's supply and the fetch history of the attribute cycles
budgetVars == <<upstream, cycle_fetches>>

\* the flag and the polling loops of the poller objects
loopVars == <<poller_is_running, polling_loops>>

\* the price rows of the single-symbol update path and its last call
singleVars == <<price_rows, unique_stock_date, single_result>>

attrVars == <<now, attrs, apoll, acyc, lastBatch, fetchers>>

priceVars == <<day, afterClose, tickerprice, momentum_scores, tracker, cache,
               is_running, cyc, fresh, computedToday, lastWave, cleanToday,
               last_price_date>>

dbVars == <<tickerprice, momentum_scores, pending, tracker>>

\* the state of the ingestion engine
engineVars == <<stockmetadata, pending, priceVars, attrVars>>

\* ------------------------------------------------------------------------
\* Market calendar
\* ------------------------------------------------------------------------
weekday(d) == (FirstWeekday + d - 1) % 7
IsWeekday(d) == weekday(d) < 5

\* ------------------------------------------------------------------------
\* Pending-ops ledger (DataUpdater)
\* ------------------------------------------------------------------------
HasPending(p, s, k) == \E i \in 1..Len(p) : p[i].stock = s /\ p[i].kind = k

RetryCount(p, s, k) ==
    LET i == CHOOSE j \in 1..Len(p) : p[j].stock = s /\ p[j].kind = k
    IN  p[i].retry_count

add_to_pending(p, s, k) ==
    IF HasPending(p, s, k)
    THEN [i \in 1..Len(p) |->
            IF p[i].stock = s /\ p[i].kind = k
            THEN [p[i] EXCEPT !.retry_count = @ + 1]
            ELSE p[i]]
    ELSE Append(p, [stock |-> s, kind |-> k, retry_count |-> 0])

add_to_pending_prices_first1(p, s) ==
    IF HasPending(p, s, "prices")
    THEN add_to_pending(p, s, "prices")
    ELSE Append(p, [stock |-> s, kind |-> "prices", retry_count |-> 1])

add_to_pending_prices(p, s) == add_to_pending(p, s, "prices")

add_to_pending_attributes(p, s) == add_to_pending(p, s, "attributes")

remove_from_pending(p, s, k) ==
    SelectSeq(p, LAMBDA r : ~(r.stock = s /\ r.kind = k))

StocksOf(rows) == [i \in 1..Len(rows) |-> rows[i].stock]
SeqSet(q) == {q[i] : i \in 1..Len(q)}

\* PricePoller._get_pending_price_stocks
_get_pending_price_stocks(p) ==
    StocksOf(SelectSeq(p, LAMBDA r : r.kind = "prices" /\ r.retry_count < max_retries))

get_exhausted_retry_stocks(p, k) ==
    StocksOf(SelectSeq(p, LAMBDA r : r.kind = k /\ r.retry_count >= MAX_RETRIES))

\* ------------------------------------------------------------------------
\* Update tracker
\* ------------------------------------------------------------------------
\* no row; a row written by mark_update_started or mark_update_failed alone
\* has last_updated NULL
NoRow == [status |-> "absent", last_updated |-> None]

mark_update_started(row) == [status |-> "in_progress", last_updated |-> row.last_updated]

mark_update_completed(row, today) == [status |-> "completed", last_updated |-> today]

mark_update_failed(row) == [status |-> "failed", last_updated |-> row.last_updated]

\* UpdateTracker.get_stocks_needing_update, ordered by market_cap DESC
get_stocks_needing_update(meta, tr, today) ==
    SelectSeq(meta, LAMBDA s : \/ tr[s].status = "absent"
                                 \/ (tr[s].last_updated # None /\ tr[s].last_updated < today)
                                 \/ tr[s].status = "failed")

\* ------------------------------------------------------------------------
\* Price table, scoring and score store
\* ------------------------------------------------------------------------
DatesOf(tp, s) == {b.date : b \in {x \in tp : x.stock = s}}

\* DataUpdater._insert_price_data: rows with a NaN value are dropped
_insert_price_data(tp, s, rows) ==
    tp \cup {[stock |-> s, date |-> r.date] : r \in {x \in rows : x.valid}}

\* the score stands for a value computed from the stored history
calculate_quality_momentum_score(hist) == Cardinality(hist)

store_momentum_scores_noconflict(ms, s, today, score) ==
    ms \cup {[stock |-> s, calculation_date |-> today, score |-> score]}

\* MomentumStorage.store_momentum_scores: INSERT .. ON CONFLICT DO UPDATE
store_momentum_scores(ms, s, today, score) ==
    {r \in ms : ~(r.stock = s /\ r.calculation_date = today)}
        \cup {[stock |-> s, calculation_date |-> today, score |-> score]}

\* DataUpdater._calculate_and_store_momentum on the database record db
\* db = [tp, ms, tr, ca, ct] with ca the cache of the calling updater
_calculate_and_store_momentum(db, s, today, storeOk) ==
    LET hist == DatesOf(db.tp, s)
    IN  IF hist = {} THEN db
        ELSE LET hit == db.ca[s] # None
                 score == IF hit THEN db.ca[s]
                          ELSE calculate_quality_momentum_score(hist)
             IN  [db EXCEPT
                    !.ca[s] = score,
                    !.ct[s] = IF hit THEN @ ELSE @ + 1,
                    !.ms = IF storeOk
                           THEN store_momentum_scores(@, s, today, score)
                           ELSE @]

\* DataUpdater._process_stock_batch_data; resp is the upstream's answer
_process_stock_batch_data(db, s, resp, today) ==
    IF resp.kind = "nodata" THEN [db |-> db, ok |-> FALSE]
    ELSE IF resp.kind = "error"
    THEN [db |-> [db EXCEPT !.tr[s] = mark_update_failed(@)], ok |-> FALSE]
    ELSE LET existing_dates == DatesOf(db.tp, s)
             new_data == {r \in resp.rows : r.date \notin existing_dates}
         IN  IF new_data = {} THEN [db |-> db, ok |-> TRUE]
             ELSE LET latest_date == CHOOSE d \in {r.date : r \in new_data} :
                                         \A r \in new_data : r.date <= d
                      db1 == [db EXCEPT !.tp = _insert_price_data(@, s, new_data),
                                        !.lpd[s] = latest_date]
                      db2 == _calculate_and_store_momentum(db1, s, today, resp.storeOk)
                      db3 == [db2 EXCEPT !.tr[s] = mark_update_completed(@, today)]
                  IN  [db |-> db3, ok |-> TRUE]

\* DataUpdater.bulk_update_stocks / _batch_update_stocks
RECURSIVE bulk_update_stocks(_, _, _, _)
bulk_update_stocks(db, stocks, resp, today) ==
    IF stocks = <<>> THEN [db |-> db, okSet |-> {}]
    ELSE LET s == Head(stocks)
             r == _process_stock_batch_data(db, s, resp[s], today)
             rest == bulk_update_stocks(r.db, Tail(stocks), resp, today)
         IN  [db |-> rest.db,
              okSet |-> (IF r.ok THEN {s} ELSE {}) \cup rest.okSet]

\* DataUpdater._batch_update_stocks as called by bulk_update_stocks on the
\* one batch of the wave: when yf.download raises (or returns an empty
\* frame) every stock of the batch is reported failed and nothing is written
_batch_update_stocks(db, stocks, resp, today, raised) ==
    IF raised THEN [db |-> db, okSet |-> {}]
    ELSE bulk_update_stocks(db, stocks, resp, today)

\* the stocks PricePoller._update_stock_prices hands to
\* update_stock_price_data, the single-symbol path: that happens in its
\* except branch only, and bulk_update_stocks never raises into it, it
\* catches the error of a batch and reports (False, error) for every stock
individual_fallback(stocks, raised) == {}

\* the ledger part of PricePoller._update_stock_prices
RECURSIVE LedgerAfter(_, _, _)
LedgerAfter(p, stocks, okSet) ==
    IF stocks = <<>> THEN p
    ELSE LET s == Head(stocks)
         IN  LedgerAfter(IF s \in okSet
                         THEN remove_from_pending(p, s, "prices")
                         ELSE add_to_pending_prices(p, s),
                         Tail(stocks), okSet)

\* ------------------------------------------------------------------------
\* Upstream answers
\* ------------------------------------------------------------------------
Window(today) == {d \in 0..MaxDay : today - FetchBack <= d /\ d <= today}

Row(d, v) == [date |-> d, valid |-> v]

\* answers of the upstream for one stock: nothing usable, an exception while
\* processing, or rows of the window (valid, or carrying a NaN value);
\* storeOk is the outcome of the score upsert (False on a store error)
NoData == [kind |-> "nodata", rows |-> {}, storeOk |-> TRUE]
Bars(rows, storeOk) == [kind |-> "bars", rows |-> rows, storeOk |-> storeOk]

\* the answers the cycle specification draws from
CycleResponses(today) ==
    {NoData} \cup {Bars({Row(d, TRUE)}, TRUE) : d \in Window(today)}

\* the answers the scoring specification draws from: rows every time
\* (fetch failures are the subject of Spec), possibly a NaN row, possibly
\* with a failing score upsert
ScoreResponses(today) ==
    {Bars({Row(d, TRUE)}, TRUE) : d \in Window(today)}
    \cup {Bars({Row(today, TRUE)}, FALSE), Bars({Row(today, FALSE)}, TRUE)}

\* ------------------------------------------------------------------------
\* Price poller
\* ------------------------------------------------------------------------
\* PricePoller._has_run_today
_has_run_today(meta, tp, today) ==
    \E s \in {meta[i] : i \in 1..Len(meta)} :
        \E b \in tp : b.stock = s /\ b.date = today

_should_run_price_update_nocheck(meta, tp, today, closed) == closed

\* PricePoller._should_run_price_update
_should_run_price_update(meta, tp, today, closed) ==
    closed /\ ~_has_run_today(meta, tp, today)

_get_stocks_needing_price_update_all(meta, tp, today) == meta

\* PricePoller._get_stocks_needing_price_update
_get_stocks_needing_price_update(meta, tp, today) ==
    SelectSeq(meta, LAMBDA s : ~\E b \in tp :
                         b.stock = s /\ b.date \in {today, today - 1})

ContinueRetries_always(backlog) == TRUE

\* "if not pending_stocks: break" in _run_price_update_cycle
ContinueRetries(backlog) == backlog # <<>>

Idle == [pc |-> "idle", attempt |-> 0, allOk |-> TRUE, by |-> "none"]

DbOf(u) == [tp |-> tickerprice, ms |-> momentum_scores, tr |-> tracker,
            ca |-> cache[u], ct |-> computedToday, lpd |-> last_price_date]

WithinCap(p, stocks) ==
    \A s \in SeqSet(stocks) :
        HasPending(p, s, "prices") => RetryCount(p, s, "prices") < RetryCap

HasScore(ms, s, d) == \E r \in ms : r.stock = s /\ r.calculation_date = d

\* by is the caller of the cycle the step belongs to; suspended tells
\* whether the coroutine awaited a sleep during the step or ends it in one
NoWave == [op |-> "none", unscored |-> {}, badFetch |-> {}, fiveFail |-> {},
           succeeded |-> {}, failed |-> {}, aggregate |-> FALSE, retried |-> {},
           by |-> "none", suspended |-> TRUE]

\* one wave: PricePoller._update_stock_prices(stocks, attempt) of the cycle
\* started by r, followed by the head of the retry loop
\* ("for attempt in range(2, max_retries + 1): if not self.is_running: break")
Wave(r, stocks, attempt, isFirst, R) ==
    /\ WithinCap(pending, stocks)
    /\ \E resp \in [SeqSet(stocks) -> R] : \E raised \in BOOLEAN :
        LET res == _batch_update_stocks(DbOf("price"), stocks, resp, day, raised)
            newPending == LedgerAfter(pending, stocks, res.okSet)
            failed == SeqSet(stocks) \ res.okSet
            startFresh == IF isFirst
                          THEN {s \in SeqSet(stocks) : ~HasPending(pending, s, "prices")}
                          ELSE fresh
            ok == (IF isFirst THEN TRUE ELSE cyc.allOk) /\ failed = {}
            more == attempt < max_retries /\ is_running
        IN  /\ tickerprice' = res.db.tp
            /\ momentum_scores' = res.db.ms
            /\ tracker' = res.db.tr
            /\ cache' = [cache EXCEPT !["price"] = res.db.ca]
            /\ computedToday' = res.db.ct
            /\ last_price_date' = res.db.lpd
            /\ pending' = newPending
            /\ fresh' = IF more THEN startFresh \cap failed ELSE {}
            /\ cyc' = IF more
                      THEN [pc |-> "retry_wait", attempt |-> attempt + 1,
                            allOk |-> ok, by |-> r]
                      ELSE Idle
            /\ cleanToday' = IF more THEN cleanToday ELSE ok
            /\ lastWave' = [op |-> "wave",
                            unscored |-> {s \in res.okSet : ~HasScore(res.db.ms, s, day)},
                            badFetch |-> SeqSet(stocks) \cap
                                SeqSet(get_exhausted_retry_stocks(pending, "prices")),
                            fiveFail |-> IF attempt = 5
                                         THEN startFresh \cap failed ELSE {},
                            succeeded |-> res.okSet,
                            failed |-> failed,
                            aggregate |-> raised,
                            retried |-> individual_fallback(stocks, raised),
                            by |-> r,
                            suspended |-> ~isFirst \/ more]

\* _run_price_update_cycle up to and including wave 1
RunCycle(r, R) ==
    LET stocks_to_update == _get_stocks_needing_price_update(stockmetadata, tickerprice, day)
    IN  IF stocks_to_update = <<>>
        THEN /\ lastWave' = [NoWave EXCEPT !.op = "skip", !.by = r,
                                           !.suspended = FALSE]
             /\ UNCHANGED <<tickerprice, momentum_scores, pending, tracker, cache,
                            computedToday, last_price_date, fresh, cyc, cleanToday>>
        ELSE Wave(r, stocks_to_update, 1, TRUE, R)

\* start_price_polling: the loop finds _should_run_price_update() true
ScheduledStart(R) ==
    /\ is_running
    /\ cyc.pc = "idle"
    /\ _should_run_price_update(stockmetadata, tickerprice, day, afterClose)
    /\ RunCycle("loop", R)
    /\ UNCHANGED attrVars
    /\ UNCHANGED readVars
    /\ UNCHANGED <<stockmetadata, day, afterClose, is_running>>

\* run_manual_price_update (triggered while no cycle is in progress)
ManualStart(R) ==
    /\ cyc.pc = "idle"
    /\ RunCycle("manual", R)
    /\ UNCHANGED attrVars
    /\ UNCHANGED readVars
    /\ UNCHANGED <<stockmetadata, day, afterClose, is_running>>

\* the retry loop of _run_price_update_cycle after asyncio.sleep(retry_delay)
RetryWave(R) ==
    /\ cyc.pc = "retry_wait"
    /\ LET pending_stocks == _get_pending_price_stocks(pending)
       IN  IF ContinueRetries(pending_stocks)
           THEN Wave(cyc.by, pending_stocks, cyc.attempt, FALSE, R)
           ELSE /\ cyc' = Idle
                /\ fresh' = {}
                /\ cleanToday' = cyc.allOk
                /\ lastWave' = [NoWave EXCEPT !.op = "drained"]
                /\ UNCHANGED <<tickerprice, momentum_scores, pending, tracker,
                               cache, computedToday, last_price_date>>
    /\ UNCHANGED <<stockmetadata, day, afterClose, is_running>>
    /\ UNCHANGED attrVars
    /\ UNCHANGED readVars

\* start_price_polling
StartPolling ==
    /\ ~is_running
    /\ is_running' = TRUE
    /\ lastWave' = NoWave
    /\ UNCHANGED <<stockmetadata, day, afterClose, tickerprice, momentum_scores, pending,
                   tracker, cache, cyc, fresh, computedToday, last_price_date, cleanToday>>
    /\ UNCHANGED attrVars
    /\ UNCHANGED readVars

\* stop_price_polling
StopPolling ==
    /\ is_running
    /\ is_running' = FALSE
    /\ lastWave' = NoWave
    /\ UNCHANGED <<stockmetadata, day, afterClose, tickerprice, momentum_scores, pending,
                   tracker, cache, cyc, fresh, computedToday, last_price_date, cleanToday>>
    /\ UNCHANGED attrVars
    /\ UNCHANGED readVars

\* DataUpdater.reset_all_retry_counts: the UPDATE is run through
\* execute_query (pd.read_sql_query inside "with conn"); committed tells
\* whether the transaction was committed or rolled back when the statement
\* returned no result set
reset_all_retry_counts(p, k, committed) ==
    IF committed
    THEN [j \in 1..Len(p) |->
            IF p[j].kind = k THEN [p[j] EXCEPT !.retry_count = 0] ELSE p[j]]
    ELSE p

\* the admin operation on the 'prices' rows
ResetRetries ==
    /\ cyc.pc = "idle"
    /\ \E committed \in BOOLEAN :
        pending' = reset_all_retry_counts(pending, "prices", committed)
    /\ lastWave' = [NoWave EXCEPT !.op = "reset"]
    /\ UNCHANGED <<stockmetadata, day, afterClose, tickerprice, momentum_scores,
                   tracker, cache, is_running, cyc, fresh, computedToday, last_price_date, cleanToday>>
    /\ UNCHANGED attrVars
    /\ UNCHANGED readVars

\* ------------------------------------------------------------------------
\* Generic poller (PollerService) and its manual entry points
\* ------------------------------------------------------------------------
GenericPass(stocks, R) ==
    /\ stocks # <<>>
    /\ \E resp \in [SeqSet(stocks) -> R] :
        LET res == bulk_update_stocks(DbOf("generic"), stocks, resp, day)
        IN  /\ tickerprice' = res.db.tp
            /\ momentum_scores' = res.db.ms
            /\ tracker' = res.db.tr
            /\ cache' = [cache EXCEPT !["generic"] = res.db.ca]
            /\ computedToday' = res.db.ct
            /\ last_price_date' = res.db.lpd
            /\ lastWave' = [op |-> "pass",
                            unscored |-> {s \in res.okSet : ~HasScore(res.db.ms, s, day)},
                            badFetch |-> {}, fiveFail |-> {},
                            succeeded |-> res.okSet,
                            failed |-> SeqSet(stocks) \ res.okSet,
                            aggregate |-> FALSE, retried |-> {},
                            by |-> "generic", suspended |-> TRUE]
    /\ UNCHANGED <<stockmetadata, day, afterClose, pending, is_running, cyc, fresh,
                   cleanToday>>
    /\ UNCHANGED attrVars
    /\ UNCHANGED readVars

\* PollerService._update_cycle
GenericCycle(R) == GenericPass(get_stocks_needing_update(stockmetadata, tracker, day), R)

\* PollerService.update_specific_stocks([symbol]) (POST /stocks/{symbol}/update)
UpdateSpecific(R) == \E s \in SeqSet(stockmetadata) : GenericPass(<<s>>, R)

\* ------------------------------------------------------------------------
\* Attribute poller (AttributePoller) and the attribute side of DataUpdater
\* ------------------------------------------------------------------------
\* the attribute groups of a stockmetadata row: sector and industry, the
\* current price, the market cap, the other fifteen metrics tested by
\* _all_attributes_present
Fields == {"sector_industry", "current_price", "market_cap", "metrics"}

\* answers of fetch_financial_attributes: (success, attributes, error_msg)
Info(fields) == [ok |-> TRUE, attrs |-> fields, msg |-> ""]
Failure(msg) == [ok |-> FALSE, attrs |-> {}, msg |-> msg]

AttrResponses ==
    {Info(Fields), Info({"current_price"}),
     Failure("Read timed out"), Failure("Too Many Requests")}

\* "Too Many Requests" in msg or "Rate limited" in msg
IsRateLimitMsg(msg) == msg \in {"Too Many Requests", "Rate limited"}

\* DataUpdater._all_attributes_present
_all_attributes_present(at, s) ==
    /\ "sector_industry" \in at[s]
    /\ ("metrics" \in at[s] \/ "current_price" \in at[s])

\* DataUpdater.get_pending_attribute_stocks
get_pending_attribute_stocks(p) ==
    StocksOf(SelectSeq(p, LAMBDA r : r.kind = "attributes" /\ r.retry_count < MAX_RETRIES))

\* DataUpdater.ensure_missing_stocks_in_pending, by market_cap DESC
RECURSIVE AddMissing(_, _)
AddMissing(p, stocks) ==
    IF stocks = <<>> THEN p
    ELSE AddMissing(add_to_pending_attributes(p, Head(stocks)), Tail(stocks))

ensure_missing_stocks_in_pending(p, at, meta) ==
    AddMissing(p, SelectSeq(meta, LAMBDA s :
        /\ ~({"sector_industry", "current_price", "market_cap"} \subseteq at[s])
        /\ ~HasPending(p, s, "attributes")))

\* DataUpdater.cleanup_completed_attribute_stocks
cleanup_completed_attribute_stocks(p, at) ==
    SelectSeq(p, LAMBDA r :
        ~(/\ r.kind = "attributes"
          /\ "sector_industry" \in at[r.stock]
          /\ ~({"metrics", "current_price"} \subseteq at[r.stock])))

\* process_single_stock of DataUpdater.update_attributes_for_stocks on the
\* database record db = [p, at]
process_single_stock(db, s, r) ==
    IF r.ok /\ r.attrs # {}
    THEN LET at1 == [db.at EXCEPT ![s] = @ \cup r.attrs]
         IN  IF _all_attributes_present(at1, s)
             THEN [db |-> [p |-> remove_from_pending(db.p, s, "attributes"), at |-> at1],
                   success |-> TRUE, msg |-> "Updated"]
             ELSE [db |-> [p |-> add_to_pending_attributes(db.p, s), at |-> at1],
                   success |-> TRUE, msg |-> "still missing"]
    ELSE [db |-> [db EXCEPT !.p = add_to_pending_attributes(@, s)],
          success |-> FALSE, msg |-> r.msg]

\* DataUpdater.update_attributes_for_stocks: the stocks of the list one after
\* the other; results maps each stock to (success, message)
RECURSIVE update_attributes_for_stocks(_, _, _)
update_attributes_for_stocks(db, stocks, resp) ==
    IF stocks = <<>> THEN [db |-> db, results |-> <<>>]
    ELSE LET s == Head(stocks)
             one == process_single_stock(db, s, resp[s])
             rest == update_attributes_for_stocks(one.db, Tail(stocks), resp)
         IN  [db |-> rest.db,
              results |-> <<[stock |-> s, success |-> one.success, msg |-> one.msg]>>
                            \o rest.results]

rate_limit_errors_none(results) == 0

\* rate_limit_errors of _run_attribute_update_cycle
rate_limit_errors(results) ==
    Cardinality({k \in 1..Len(results) :
        ~results[k].success /\ IsRateLimitMsg(results[k].msg)})

\* missing_attributes[1::2] for instance "2", missing_attributes[0::2] otherwise
Shard(i, list) ==
    LET first == IF i = "2" THEN 2 ELSE 1
        idx == {k \in 1..Len(list) : k >= first /\ (k - first) % 2 = 0}
    IN  [j \in 1..Cardinality(idx) |-> list[first + 2 * (j - 1)]]

Min(a, b) == IF a <= b THEN a ELSE b

NewPoller == [is_running |-> FALSE, rate_limit_cooldown |-> FALSE, cooldown_until |-> None]

AttrIdle == [pc |-> "idle", rest |-> <<>>]

NoBatch == [op |-> "none", inst |-> "1", fetched |-> {}, rateLimited |-> FALSE,
            inCooldown |-> FALSE, left |-> <<>>, ledgerChanged |-> FALSE]

\* the replica is inside its cooldown: cooldown_until lies in the future
InCooldown(i) ==
    /\ apoll[i].rate_limit_cooldown
    /\ apoll[i].cooldown_until # None
    /\ now < apoll[i].cooldown_until

AttrWithinCap(p, stocks) ==
    \A s \in SeqSet(stocks) :
        HasPending(p, s, "attributes") => RetryCount(p, s, "attributes") < AttrRetryCap

\* fetchers after a step that leaves the pending rows p1 and in which the
\* cycle of replica i fetched the stocks of batch
FetchersAfter(p1, i, batch) ==
    [s \in StockSet |->
        IF HasPending(p1, s, "attributes")
        THEN fetchers[s] \cup (IF s \in batch THEN {i} ELSE {})
        ELSE {}]

\* the batch loop of _run_attribute_update_cycle from one "for" head up to
\* the sleep after the batch (or the break), on the backlog list of replica i
\* with pending rows p0 and poller fields f0
BatchLoop(i, list, p0, f0, paused) ==
    IF list = <<>> \/ ~f0.is_running
    THEN /\ pending' = p0
         /\ apoll' = [apoll EXCEPT ![i] = f0]
         /\ acyc' = [acyc EXCEPT ![i] = AttrIdle]
         /\ lastBatch' = [NoBatch EXCEPT !.op = "skip", !.inst = i,
                                         !.ledgerChanged = p0 # pending]
         /\ fetchers' = FetchersAfter(p0, i, {})
         /\ UNCHANGED attrs
    ELSE LET batch == SubSeq(list, 1, Min(BatchSize, Len(list)))
             rest == SubSeq(list, Len(batch) + 1, Len(list))
         IN  /\ AttrWithinCap(p0, batch)
             /\ \E resp \in [SeqSet(batch) -> AttrResponses] :
                 LET res == update_attributes_for_stocks([p |-> p0, at |-> attrs], batch, resp)
                     limited == rate_limit_errors(res.results) > 0
                 IN  /\ pending' = res.db.p
                     /\ attrs' = res.db.at
                     /\ fetchers' = FetchersAfter(res.db.p, i, SeqSet(batch))
                     /\ apoll' = [apoll EXCEPT ![i] =
                            IF limited
                            THEN [f0 EXCEPT !.rate_limit_cooldown = TRUE,
                                            !.cooldown_until = now + COOLDOWN_MINUTES]
                            ELSE f0]
                     /\ acyc' = [acyc EXCEPT ![i] =
                            IF limited \/ rest = <<>>
                            THEN AttrIdle
                            ELSE [pc |-> "between", rest |-> rest]]
                     /\ lastBatch' = [op |-> "batch", inst |-> i,
                                      fetched |-> SeqSet(batch),
                                      rateLimited |-> \E s \in SeqSet(batch) :
                                                        IsRateLimitMsg(resp[s].msg),
                                      inCooldown |-> paused,
                                      left |-> rest,
                                      ledgerChanged |-> res.db.p # pending]

\* AttributePoller._should_pause_due_to_rate_limit (its return value)
_should_pause_due_to_rate_limit(i) == InCooldown(i)

\* AttributePoller._run_attribute_update_cycle of replica i (entered by the
\* polling loop or by run_manual_attribute_update without a stock list),
\* up to the sleep after the first batch
AttrCycle(i) ==
    /\ acyc[i].pc = "idle"
    /\ IF _should_pause_due_to_rate_limit(i)
       THEN /\ lastBatch' = [NoBatch EXCEPT !.op = "paused", !.inst = i,
                                            !.inCooldown = InCooldown(i)]
            /\ UNCHANGED <<pending, attrs, apoll, acyc, fetchers>>
       ELSE LET f0 == IF apoll[i].rate_limit_cooldown /\ apoll[i].cooldown_until # None
                      THEN [apoll[i] EXCEPT !.rate_limit_cooldown = FALSE,
                                            !.cooldown_until = None]
                      ELSE apoll[i]
            IN  IF get_pending_attribute_stocks(pending) = <<>>
                THEN BatchLoop(i, <<>>, pending, f0, InCooldown(i))
                ELSE LET p1 == ensure_missing_stocks_in_pending(pending, attrs, stockmetadata)
                         p2 == cleanup_completed_attribute_stocks(p1, attrs)
                         mine == Shard(i, get_pending_attribute_stocks(p2))
                         exhausted_stocks == SeqSet(get_exhausted_retry_stocks(p2, "attributes"))
                         missing_attributes == SelectSeq(mine, LAMBDA s : s \notin exhausted_stocks)
                     IN  BatchLoop(i, missing_attributes, p2, f0, InCooldown(i))
    /\ now' = now
    /\ UNCHANGED stockmetadata
    /\ UNCHANGED priceVars
    /\ UNCHANGED readVars

\* the next batch of the cycle of replica i, after asyncio.sleep(10)
AttrNextBatch(i) ==
    /\ acyc[i].pc = "between"
    /\ BatchLoop(i, acyc[i].rest, pending, apoll[i], InCooldown(i))
    /\ now' = now
    /\ UNCHANGED stockmetadata
    /\ UNCHANGED priceVars
    /\ UNCHANGED readVars

\* the stocks manual attribute updates are requested for
ManualSymbols == {"A"}

\* run_manual_attribute_update(stocks) of replica i with a list of one stock
ManualAttrUpdate(i) ==
    \E s \in ManualSymbols \cap SeqSet(stockmetadata) :
        /\ AttrWithinCap(pending, <<s>>)
        /\ \E resp \in [{s} -> AttrResponses] :
            LET res == update_attributes_for_stocks([p |-> pending, at |-> attrs], <<s>>, resp)
            IN  /\ pending' = res.db.p
                /\ attrs' = res.db.at
                /\ fetchers' = FetchersAfter(res.db.p, i, {})
                /\ lastBatch' = [op |-> "manual", inst |-> i, fetched |-> {s},
                                 rateLimited |-> IsRateLimitMsg(resp[s].msg),
                                 inCooldown |-> InCooldown(i),
                                 left |-> <<>>,
                                 ledgerChanged |-> res.db.p # pending]
        /\ UNCHANGED <<now, apoll, acyc, stockmetadata>>
        /\ UNCHANGED priceVars
        /\ UNCHANGED readVars

\* start_attribute_polling
AttrStart(i) ==
    /\ ~apoll[i].is_running
    /\ apoll' = [apoll EXCEPT ![i].is_running = TRUE]
    /\ lastBatch' = NoBatch
    /\ UNCHANGED <<now, attrs, acyc, pending, stockmetadata, fetchers>>
    /\ UNCHANGED priceVars
    /\ UNCHANGED readVars

\* stop_attribute_polling
AttrStop(i) ==
    /\ apoll[i].is_running
    /\ apoll' = [apoll EXCEPT ![i].is_running = FALSE]
    /\ lastBatch' = NoBatch
    /\ UNCHANGED <<now, attrs, acyc, pending, stockmetadata, fetchers>>
    /\ UNCHANGED priceVars
    /\ UNCHANGED readVars

\* a minute passes
Tick ==
    /\ now < MaxNow
    /\ now' = now + 1
    /\ lastBatch' = NoBatch
    /\ UNCHANGED <<attrs, apoll, acyc, pending, stockmetadata, fetchers>>
    /\ UNCHANGED priceVars
    /\ UNCHANGED readVars

\* ------------------------------------------------------------------------
\* Time
\* ------------------------------------------------------------------------
MarketClose ==
    /\ ~afterClose
    /\ afterClose' = TRUE
    /\ lastWave' = NoWave
    /\ UNCHANGED <<stockmetadata, day, tickerprice, momentum_scores, pending,
                   tracker, cache, is_running, cyc, fresh, computedToday, last_price_date, cleanToday>>
    /\ UNCHANGED attrVars
    /\ UNCHANGED readVars

Midnight ==
    /\ afterClose
    /\ day < MaxDay
    /\ day' = day + 1
    /\ afterClose' = FALSE
    /\ computedToday' = [s \in StockSet |-> 0]
    /\ cleanToday' = FALSE
    /\ lastWave' = NoWave
    /\ UNCHANGED <<stockmetadata, tickerprice, momentum_scores, pending,
                   tracker, cache, is_running, cyc, fresh, last_price_date>>
    /\ UNCHANGED attrVars
    /\ UNCHANGED readVars

\* ------------------------------------------------------------------------
\* Strategy service: the pipeline executor (POST /pipeline/execute)
\* ------------------------------------------------------------------------
\* the strategies of StrategyManager plus the momentum score
Strategies == {"momentum", "week52_breakout", "mean_reversion",
               "low_volatility", "ma_crossover"}

\* stockmetadata.sector and stockmetadata.industry of the model's stocks
StockSector == [s \in StockSet |-> IF s = "B" THEN "Financials" ELSE "Technology"]
StockIndustry == [s \in StockSet |-> IF s = "A" THEN "Software"
                                     ELSE IF s = "B" THEN "Banks" ELSE "Hardware"]

\* Python's "a or b" on an optional number: a when it is neither None nor 0
Or(a, b) == IF a # None /\ a # 0 THEN a ELSE b

\* dict.get(key, default) on an optional number
Get(v, default) == IF v = None THEN default ELSE v

\* DataFrame.head(n) / list[:n] for n >= 0
head(rows, n) == SubSeq(rows, 1, Min(n, Len(rows)))

\* the 'stock' column of a frame
Symbols(rows) == [j \in 1..Len(rows) |-> rows[j].stock]

\* SELECT * FROM stockmetadata WHERE market_cap_rank <= limit [AND industry =
\* ..] [AND sector = ..] ORDER BY market_cap_rank; meta is in rank order
get_top_stocks_by_market_cap(meta, limit, industry, sector) ==
    LET Keep(s) == /\ industry # "" => StockIndustry[s] = industry
                   /\ sector # "" => StockSector[s] = sector
    IN  SelectSeq(head(meta, limit), Keep)

\* list.sort(key=score, reverse=True) / sort_values('score', ascending=False):
\* by score descending, rows of equal score in their former order
InsertRow(sorted, r) ==
    LET k == Cardinality({j \in 1..Len(sorted) : sorted[j].score >= r.score})
    IN  SubSeq(sorted, 1, k) \o <<r>> \o SubSeq(sorted, k + 1, Len(sorted))

RECURSIVE SortByScore(_)
SortByScore(rows) ==
    IF rows = <<>> THEN <<>>
    ELSE InsertRow(SortByScore(SubSeq(rows, 1, Len(rows) - 1)), rows[Len(rows)])

\* the rows a scoring loop appends: one per symbol that it does not skip
ScoredRows(column, symbols) ==
    LET kept == SelectSeq(symbols, LAMBDA s : column[s] # None)
    IN  [j \in 1..Len(kept) |-> [stock |-> kept[j], score |-> column[kept[j]]]]

\* the universe of a get_*_data helper: input_df when given and not empty
\* (<<>> stands for None and for an empty frame), else the market-cap query
HelperSymbols(meta, market_cap_limit, industry, sector, input_df) ==
    IF input_df # <<>> THEN input_df
    ELSE get_top_stocks_by_market_cap(meta, market_cap_limit, industry, sector)

get_week52_breakout_data(tab, meta, market_cap_limit, industry, sector, input_df) ==
    ScoredRows(tab["week52_breakout"],
               HelperSymbols(meta, market_cap_limit, industry, sector, input_df))

get_mean_reversion_data(tab, meta, market_cap_limit, industry, sector, input_df) ==
    ScoredRows(tab["mean_reversion"],
               HelperSymbols(meta, market_cap_limit, industry, sector, input_df))

get_low_volatility_data(tab, meta, market_cap_limit, industry, sector, input_df) ==
    ScoredRows(tab["low_volatility"],
               HelperSymbols(meta, market_cap_limit, industry, sector, input_df))

\* the fields read from a stage of the request (both spellings)
StageStrategyId(cfg) == IF cfg.strategyId # "" THEN cfg.strategyId ELSE cfg.strategy_id
StageMarketCapLimit(cfg) ==
    Or(cfg.marketCapLimit, Get(cfg.market_cap_limit, DEFAULT_MARKET_CAP_LIMIT))
StageOutputCount(cfg) ==
    Or(cfg.outputCount, Get(cfg.output_count, DEFAULT_OUTPUT_COUNT))

\* a stage whose universe is always the market-cap query with its own filters
StageInput_query(i, cfg, meta, current_stocks) ==
    get_top_stocks_by_market_cap(meta, StageMarketCapLimit(cfg), cfg.industry, cfg.sector)

\* the symbols a stage works on: the market-cap query for the first stage,
\* the symbols of current_stocks for a later one
StageInput(i, cfg, meta, current_stocks) ==
    IF i = 1
    THEN get_top_stocks_by_market_cap(meta, StageMarketCapLimit(cfg),
                                      cfg.industry, cfg.sector)
    ELSE Symbols(current_stocks)

\* the branch of execute_pipeline for the strategy of a stage: the new
\* current_stocks, rows [stock, score] (score None: the frame has no score)
RunStrategy(i, cfg, meta, tab, symbols) ==
    LET strategy_id == StageStrategyId(cfg)
        market_cap_limit == StageMarketCapLimit(cfg)
        output_count == StageOutputCount(cfg)
        input_df == IF i > 1 THEN symbols ELSE <<>>
    IN  CASE strategy_id = "momentum" ->
               head(SortByScore(ScoredRows(tab["momentum"], symbols)), output_count)
          [] strategy_id = "week52_breakout" ->
               head(SortByScore(get_week52_breakout_data(tab, meta, market_cap_limit,
                        cfg.industry, cfg.sector, input_df)), output_count)
          [] strategy_id = "mean_reversion" ->
               head(SortByScore(get_mean_reversion_data(tab, meta, market_cap_limit,
                        cfg.industry, cfg.sector, input_df)), output_count)
          [] strategy_id = "low_volatility" ->
               head(SortByScore(get_low_volatility_data(tab, meta, market_cap_limit,
                        cfg.industry, cfg.sector, input_df)), output_count)
          [] OTHER ->
               head([j \in 1..Len(symbols) |-> [stock |-> symbols[j], score |-> None]],
                    output_count)

\* the entry appended to results for stage i
StageResult(i, cfg, symbols, current_stocks) ==
    [strategyId |-> StageStrategyId(cfg),
     inputCount |-> Len(symbols),
     outputCount |-> Len(current_stocks),
     stocks |-> current_stocks,
     universe |-> IF i = 1 THEN "market_cap" ELSE "previous_output",
     inputSymbols |-> head(symbols, DEBUG_INPUT_SYMBOLS)]

\* a loop that never breaks
StageBreaks_never(i, current_stocks) == FALSE

\* "if current_stocks is None or current_stocks.empty: break" of a later stage
StageBreaks(i, current_stocks) == i > 1 /\ current_stocks = <<>>

\* the loop over the stages from stage i on
RECURSIVE RunStages(_, _, _, _, _, _)
RunStages(strategies, i, current_stocks, results, meta, tab) ==
    IF i > Len(strategies) \/ StageBreaks(i, current_stocks)
    THEN [strategies |-> strategies, results |-> results, finalStocks |-> current_stocks]
    ELSE LET cfg == strategies[i]
             symbols == StageInput(i, cfg, meta, current_stocks)
             out == RunStrategy(i, cfg, meta, tab, symbols)
         IN  RunStages(strategies, i + 1, out,
                       Append(results, StageResult(i, cfg, symbols, out)), meta, tab)

execute_pipeline(strategies, meta, tab) == RunStages(strategies, 1, <<>>, <<>>, meta, tab)

NoResult == [strategies |-> <<>>, results |-> <<>>, finalStocks |-> <<>>]

\* the requests of the model: 1..MaxStages stages in one spelling, output
\* counts 0..MaxCount, the filters f1 on the first stage and f2 on the others
NoFilter == [market_cap_limit |-> None, industry |-> "", sector |-> ""]
Filters == {NoFilter,
            [market_cap_limit |-> 2, industry |-> "", sector |-> ""],
            [market_cap_limit |-> None, industry |-> "Software", sector |-> "Technology"]}

Spellings == {"camelCase", "snake_case"}

StageConfig(spelling, id, m, f) ==
    IF spelling = "camelCase"
    THEN [strategyId |-> id, strategy_id |-> "",
          marketCapLimit |-> f.market_cap_limit, market_cap_limit |-> None,
          outputCount |-> m, output_count |-> None,
          industry |-> f.industry, sector |-> f.sector]
    ELSE [strategyId |-> "", strategy_id |-> id,
          marketCapLimit |-> None, market_cap_limit |-> f.market_cap_limit,
          outputCount |-> None, output_count |-> m,
          industry |-> f.industry, sector |-> f.sector]

Plans == UNION {[1..n -> Strategies \X (0..MaxCount)] : n \in 1..MaxStages}

Requests ==
    {[j \in 1..Len(p) |-> StageConfig(sp, p[j][1], p[j][2], IF j = 1 THEN f1 ELSE f2)] :
        sp \in Spellings, p \in Plans, f1 \in Filters, f2 \in Filters}

\* the score tables of the model: every stock has one of three price
\* histories
Profiles ==
    {[momentum |-> None, week52_breakout |-> None, mean_reversion |-> None,
      low_volatility |-> None, ma_crossover |-> None],
     [momentum |-> 2, week52_breakout |-> 2, mean_reversion |-> None,
      low_volatility |-> 1, ma_crossover |-> 2],
     [momentum |-> 1, week52_breakout |-> 1, mean_reversion |-> 2,
      low_volatility |-> 2, ma_crossover |-> 1]}

ScoreTables ==
    {[g \in Strategies |-> [s \in StockSet |-> h[s][g]]] : h \in [StockSet -> Profiles]}

\* POST /pipeline/execute; the handler keeps no state between requests, so
\* a behaviour serves one request
ExecutePipeline ==
    /\ pipeline_result = NoResult
    /\ \E req \in Requests :
          pipeline_result' = execute_pipeline(req, stockmetadata, strategy_scores)
    /\ UNCHANGED <<strategy_scores, daily_volatility, scores_response, score_counts,
                   best_date, ist, market_decision>>
    /\ UNCHANGED engineVars
    /\ UNCHANGED singleVars
    /\ UNCHANGED loopVars
    /\ UNCHANGED budgetVars
    /\ UNCHANGED barVars
    /\ UNCHANGED libraryVars
    /\ UNCHANGED configVars

\* ------------------------------------------------------------------------
\* Strategy service: ranking by one strategy (GET /strategies/{name})
\* ------------------------------------------------------------------------
\* sort_values('score', ascending=True): by score ascending, rows of equal
\* score in their former order
InsertRowAscending(sorted, r) ==
    LET k == Cardinality({j \in 1..Len(sorted) : sorted[j].score <= r.score})
    IN  SubSeq(sorted, 1, k) \o <<r>> \o SubSeq(sorted, k + 1, Len(sorted))

RECURSIVE SortByScoreAscending(_)
SortByScoreAscending(rows) ==
    IF rows = <<>> THEN <<>>
    ELSE InsertRowAscending(SortByScoreAscending(SubSeq(rows, 1, Len(rows) - 1)),
                            rows[Len(rows)])

\* LowVolatilityStrategy.calculate_scores: one row per stock of
\* stock_metadata, score = -daily_volatility
LowVolatility_calculate_scores(stock_metadata, vol) ==
    [j \in 1..Len(stock_metadata) |->
        LET s == stock_metadata[j]
        IN  IF vol[s] = None
            THEN [stock |-> s, score |-> None, daily_volatility |-> None,
                  insufficient_data |-> TRUE]
            ELSE [stock |-> s, score |-> 0 - vol[s], daily_volatility |-> vol[s],
                  insufficient_data |-> FALSE]]

\* MACrossoverStrategy.calculate_scores: score = crossover_ratio
MACrossover_calculate_scores(stock_metadata, tab) ==
    [j \in 1..Len(stock_metadata) |->
        LET s == stock_metadata[j]
            ratio == tab["ma_crossover"][s]
        IN  [stock |-> s, score |-> ratio, daily_volatility |-> None,
             insufficient_data |-> (ratio = None)]]

\* StrategyManager.calculate_strategy_scores
calculate_strategy_scores(strategy_name, stock_metadata, vol, tab) ==
    IF strategy_name = "low_volatility"
    THEN LowVolatility_calculate_scores(stock_metadata, vol)
    ELSE MACrossover_calculate_scores(stock_metadata, tab)

\* the strategies ranked in the model
RankedStrategies == {"low_volatility", "ma_crossover"}

ScoresResponse(strategy_name, q, strategy_scores_, top_stocks) ==
    [strategy_name |-> strategy_name, filters |-> q,
     strategy_scores |-> strategy_scores_, top_stocks |-> top_stocks,
     count |-> Len(strategy_scores_)]

NoScores == ScoresResponse("", [limit |-> 0, industry |-> "", sector |-> "", top_n |-> 0],
                           <<>>, <<>>)

\* the order of the valid rows: ascending for low_volatility, descending
\* for every other strategy
SortValidScores(strategy_name, valid_scores_df) ==
    IF strategy_name = "low_volatility"
    THEN SortByScoreAscending(valid_scores_df)
    ELSE SortByScore(valid_scores_df)

\* GET /strategies/{strategy_name} with q = [limit, industry, sector, top_n]
calculate_strategy_scores_v2(strategy_name, q, meta, vol, tab) ==
    LET stock_metadata == get_top_stocks_by_market_cap(meta, q.limit, q.industry, q.sector)
        strategy_scores_df == calculate_strategy_scores(strategy_name, stock_metadata, vol, tab)
        valid_scores_df == SelectSeq(strategy_scores_df, LAMBDA r : ~r.insufficient_data)
        sorted == SortValidScores(strategy_name, valid_scores_df)
    IN  ScoresResponse(strategy_name, q, sorted, head(sorted, q.top_n))

\* the queries of the model
RankingQueries ==
    {[limit |-> l, industry |-> f.industry, sector |-> f.sector, top_n |-> n] :
        l \in {2, DEFAULT_LIMIT}, f \in Filters, n \in 1..MaxTopN}

\* the volatility tables of the model
VolatilityTables == [StockSet -> {None} \cup (0..MaxVol)]

\* GET /strategies/{strategy_name}; the handler keeps no state between
\* requests, so a behaviour serves one request
CalculateStrategyScores ==
    /\ scores_response = NoScores
    /\ \E name \in RankedStrategies : \E q \in RankingQueries :
          scores_response' = calculate_strategy_scores_v2(name, q, stockmetadata,
                                                          daily_volatility, strategy_scores)
    /\ UNCHANGED <<strategy_scores, pipeline_result, daily_volatility, score_counts,
                   best_date, ist, market_decision>>
    /\ UNCHANGED engineVars
    /\ UNCHANGED singleVars
    /\ UNCHANGED loopVars
    /\ UNCHANGED budgetVars
    /\ UNCHANGED barVars
    /\ UNCHANGED libraryVars
    /\ UNCHANGED configVars

\* ------------------------------------------------------------------------
\* Score store: the best scoring date (MomentumStorage)
\* ------------------------------------------------------------------------
\* the loop over the grouped rows from row j on
RECURSIVE ScanDates(_, _, _, _)
ScanDates(result, j, max_stocks, best) ==
    IF j > Len(result) THEN best
    ELSE LET row == result[j]
             more == row.stock_count > max_stocks
         IN  IF row.stock_count > GOOD_STOCK_COUNT THEN row.calculation_date
             ELSE ScanDates(result, j + 1,
                            IF more THEN row.stock_count ELSE max_stocks,
                            IF more THEN row.calculation_date ELSE best)

\* SELECT calculation_date, COUNT(*) ... GROUP BY calculation_date ORDER BY
\* calculation_date DESC has given result
get_best_momentum_date(result) ==
    IF result = <<>> THEN None ELSE ScanDates(result, 1, 0, None)

NotAsked == [asked |-> FALSE, date |-> None]

\* the grouped rows of the model: n consecutive dates n, n-1, .., 1 with one
\* score row each, except a date with more than GOOD_STOCK_COUNT rows
\* (row g) and a date with hv rows (row h)
ScoreCountFrames ==
    {[j \in 1..n |-> [calculation_date |-> n - j + 1,
                      stock_count |-> IF j = g THEN GOOD_STOCK_COUNT + 1
                                      ELSE IF j = h THEN hv ELSE 1]] :
        n \in 0..MaxDates, g \in 0..MaxDates, h \in 0..MaxDates,
        hv \in {2, GOOD_STOCK_COUNT + 1}}

GetBestMomentumDate ==
    /\ ~best_date.asked
    /\ best_date' = [asked |-> TRUE, date |-> get_best_momentum_date(score_counts)]
    /\ UNCHANGED <<strategy_scores, pipeline_result, daily_volatility, scores_response,
                   score_counts, ist, market_decision>>
    /\ UNCHANGED engineVars
    /\ UNCHANGED singleVars
    /\ UNCHANGED loopVars
    /\ UNCHANGED budgetVars
    /\ UNCHANGED barVars
    /\ UNCHANGED libraryVars
    /\ UNCHANGED configVars

\* ------------------------------------------------------------------------
\* Market hours (MarketHours)
\* ------------------------------------------------------------------------
\* an instant t is [weekday (Monday = 0), minute of the day]
is_market_open(t) ==
    IF t.weekday >= 5 THEN FALSE
    ELSE MARKET_OPEN_TIME <= t.minute /\ t.minute <= MARKET_CLOSE_TIME

should_calculate_momentum(t) ==
    IF t.weekday >= 5 THEN FALSE
    ELSE IF is_market_open(t) THEN FALSE
    ELSE TRUE

should_update_data(t) ==
    IF t.weekday >= 5 THEN FALSE
    ELSE ~is_market_open(t)

\* MarketHours.is_market_closed_for_day
is_market_closed_for_day(t) ==
    IF t.weekday >= 5 THEN TRUE
    ELSE t.minute > MARKET_CLOSE_TIME

\* MarketHours.get_next_market_open_time: the returned datetime as the
\* number of days after today and the minute of that day
get_next_market_open_time(t) ==
    LET days_until_monday == (7 - t.weekday) % 7
        days == IF t.weekday >= 5
                THEN (IF days_until_monday = 0 THEN 1 ELSE days_until_monday)
                ELSE IF is_market_closed_for_day(t) THEN 1 ELSE 0
    IN  [days |-> days, minute |-> MARKET_OPEN_TIME]

NoDecision == [op |-> "none", answer |-> FALSE, next_open |-> [days |-> 0, minute |-> 0]]

\* the instants of the model: every minute of every day of a week
Instants == [weekday : 0..6, minute : 0..1439]

ShouldCalculateMomentum ==
    /\ market_decision = NoDecision
    /\ market_decision' = [NoDecision EXCEPT !.op = "should_calculate_momentum",
                                             !.answer = should_calculate_momentum(ist)]
    /\ UNCHANGED <<strategy_scores, pipeline_result, daily_volatility, scores_response,
                   score_counts, best_date, ist>>
    /\ UNCHANGED engineVars
    /\ UNCHANGED singleVars
    /\ UNCHANGED loopVars
    /\ UNCHANGED budgetVars
    /\ UNCHANGED barVars
    /\ UNCHANGED libraryVars
    /\ UNCHANGED configVars

ShouldUpdateData ==
    /\ market_decision = NoDecision
    /\ market_decision' = [NoDecision EXCEPT !.op = "should_update_data",
                                             !.answer = should_update_data(ist)]
    /\ UNCHANGED <<strategy_scores, pipeline_result, daily_volatility, scores_response,
                   score_counts, best_date, ist>>
    /\ UNCHANGED engineVars
    /\ UNCHANGED singleVars
    /\ UNCHANGED loopVars
    /\ UNCHANGED budgetVars
    /\ UNCHANGED barVars
    /\ UNCHANGED libraryVars
    /\ UNCHANGED configVars

GetNextMarketOpenTime ==
    /\ market_decision = NoDecision
    /\ market_decision' = [NoDecision EXCEPT !.op = "get_next_market_open_time",
                                             !.next_open = get_next_market_open_time(ist)]
    /\ UNCHANGED <<strategy_scores, pipeline_result, daily_volatility, scores_response,
                   score_counts, best_date, ist>>
    /\ UNCHANGED engineVars
    /\ UNCHANGED singleVars
    /\ UNCHANGED loopVars
    /\ UNCHANGED budgetVars
    /\ UNCHANGED barVars
    /\ UNCHANGED libraryVars
    /\ UNCHANGED configVars

\* ------------------------------------------------------------------------
\* Momentum configuration (backend/config/momentum_config.py) and the
\* momentum service that serves it (services/momentum-service/main.py).
\* A weight is an integer number of 1/One: 0.3 is (30 * One) \div 100.
\* ------------------------------------------------------------------------
One == 100 * 100

\* the 0.01 of validate_total_weights
WeightTolerance == One \div 100

WeightKeys == {"true_momentum_6m", "true_momentum_3m", "smooth_momentum",
               "volatility_adjusted", "consistency_score", "trend_strength"}

\* the field defaults of MomentumWeights
MomentumWeights_defaults ==
    [true_momentum_6m    |-> (30 * One) \div 100,
     true_momentum_3m    |-> (20 * One) \div 100,
     smooth_momentum     |-> (25 * One) \div 100,
     volatility_adjusted |-> (15 * One) \div 100,
     consistency_score   |-> (5 * One) \div 100,
     trend_strength      |-> (5 * One) \div 100]

\* MomentumWeights(**weights_data): a key left out (None) takes its default
MomentumWeights(weights_data) ==
    [k \in WeightKeys |-> IF weights_data[k] = None
                          THEN MomentumWeights_defaults[k]
                          ELSE weights_data[k]]

Abs(x) == IF x < 0 THEN -x ELSE x

\* the sum of the six weights
total_weights(w) ==
    w.true_momentum_6m + w.true_momentum_3m + w.smooth_momentum
        + w.volatility_adjusted + w.consistency_score + w.trend_strength

validate_total_weights(w) == Abs(total_weights(w) - One) < WeightTolerance

normalize_weights(w) ==
    IF total_weights(w) = 0
    THEN MomentumWeights_defaults
    ELSE [k \in WeightKeys |-> (w[k] * One) \div total_weights(w)]

\* update_momentum_config: the weights are stored as given, then every other
\* key that names an attribute of the configuration is set, and only then
\* are the weights validated and normalised. Setting an attribute that is
\* not a field ("get_weights_dict") raises, and the function leaves with
\* the weights as given.
update_momentum_config(stored, config_data) ==
    LET given == IF config_data.has_weights
                 THEN MomentumWeights(config_data.weights)
                 ELSE stored
    IN  IF config_data.other_key = "get_weights_dict"
        THEN [weights |-> given, raised |-> TRUE]
        ELSE [weights |-> IF validate_total_weights(given)
                          THEN given
                          ELSE normalize_weights(given),
              raised  |-> FALSE]

reset_momentum_config == MomentumWeights_defaults

\* the weights written into calculate_quality_momentum_score
calculator_weights ==
    [true_momentum_6m    |-> (30 * One) \div 100,
     true_momentum_3m    |-> (20 * One) \div 100,
     smooth_momentum     |-> (25 * One) \div 100,
     volatility_adjusted |-> (15 * One) \div 100,
     consistency_score   |-> (5 * One) \div 100,
     trend_strength      |-> (5 * One) \div 100]

\* sum(weights[key] * normalized_scores[key])
weighted_sum(weights, normalized_scores) ==
    weights.true_momentum_6m * normalized_scores.true_momentum_6m
        + weights.true_momentum_3m * normalized_scores.true_momentum_3m
        + weights.smooth_momentum * normalized_scores.smooth_momentum
        + weights.volatility_adjusted * normalized_scores.volatility_adjusted
        + weights.consistency_score * normalized_scores.consistency_score
        + weights.trend_strength * normalized_scores.trend_strength

quality_momentum_total(normalized_scores) ==
    [computed          |-> TRUE,
     normalized_scores |-> normalized_scores,
     weights           |-> calculator_weights,
     total_score       |-> weighted_sum(calculator_weights, normalized_scores)]

NoFactors == [k \in WeightKeys |-> 0]
NoScore == [computed |-> FALSE, normalized_scores |-> NoFactors,
            weights |-> calculator_weights, total_score |-> 0]
NoCall == [op |-> "", ok |-> TRUE]

\* the normalised factors of a stock: each factor is 0 or 1 after the
\* clipping of the calculator; two of the six vary here
NormalizedScores ==
    {[k \in WeightKeys |-> IF k = "true_momentum_6m" THEN a
                           ELSE IF k = "trend_strength" THEN b ELSE 0] :
        a \in {0, 1}, b \in {0, 1}}

\* bodies of PUT /config/momentum
WeightsData ==
    {[k \in WeightKeys |-> IF k = "true_momentum_6m" THEN a
                           ELSE IF k = "trend_strength" THEN b ELSE c] :
        a \in {None, 0, One \div 2, One}, b \in {None, 0, One \div 2, One},
        c \in {None, 0}}
ConfigData ==
    [has_weights : {TRUE}, weights : WeightsData,
     other_key : {"", "volatility_cap", "get_weights_dict"}]
    \cup [has_weights : {FALSE}, weights : {[k \in WeightKeys |-> None]},
          other_key : {"", "volatility_cap", "get_weights_dict"}]

\* PUT /config/momentum: update_momentum_configuration
UpdateMomentumConfig ==
    \E config_data \in ConfigData :
        LET r == update_momentum_config(momentum_config, config_data)
        IN  /\ momentum_config' = r.weights
            /\ config_call' = [op |-> "update", ok |-> ~r.raised]
            /\ service_cache' = IF r.raised THEN service_cache ELSE NoScore
            /\ last_score' = NoScore
            /\ UNCHANGED engineVars
            /\ UNCHANGED singleVars
            /\ UNCHANGED loopVars
            /\ UNCHANGED budgetVars
            /\ UNCHANGED barVars
            /\ UNCHANGED libraryVars
            /\ UNCHANGED queryVars

\* POST /config/momentum/reset: reset_momentum_configuration
ResetMomentumConfig ==
    /\ momentum_config' = reset_momentum_config
    /\ config_call' = [op |-> "reset", ok |-> TRUE]
    /\ service_cache' = NoScore
    /\ last_score' = NoScore
    /\ UNCHANGED engineVars
    /\ UNCHANGED singleVars
    /\ UNCHANGED loopVars
    /\ UNCHANGED budgetVars
    /\ UNCHANGED barVars
    /\ UNCHANGED libraryVars
    /\ UNCHANGED queryVars

\* MomentumService.calculate_momentum_scores for one request key: the
\* cached frame is returned when there is one, otherwise the calculator
\* scores the history and the result is cached
CalculateMomentumScores ==
    \E normalized_scores \in NormalizedScores :
        LET scored == quality_momentum_total(normalized_scores)
        IN  /\ last_score' = IF service_cache.computed THEN service_cache
                             ELSE scored
            /\ service_cache' = IF service_cache.computed THEN service_cache
                                ELSE scored
            /\ UNCHANGED <<momentum_config, config_call>>
            /\ UNCHANGED engineVars
            /\ UNCHANGED singleVars
            /\ UNCHANGED loopVars
            /\ UNCHANGED budgetVars
            /\ UNCHANGED barVars
            /\ UNCHANGED libraryVars
            /\ UNCHANGED queryVars

\* ------------------------------------------------------------------------
\* The Scoring Library on one price history (backend/models/strategies,
\* backend/models/momentum.py). A history is what the formulas read of it:
\* the number of bars, the standard deviation of the closes of the last 200
\* bars, the standard deviation of the daily returns of the last 252 bars
\* (None below two values) and the value of the strategy's ratio.
\* ------------------------------------------------------------------------
LowVolatility_minimum_data == 252
Week52_minimum_data == 252
MACrossover_minimum_data == 200
MeanReversion_minimum_data == 200
Momentum_minimum_data == 120
RECENT_MINIMUM == 50
RETURNS_MINIMUM == 20

\* BaseStrategy.validate_data_sufficiency
validate_data_sufficiency(hist, min_required) ==
    ~(hist.bars = 0 \/ hist.bars < min_required)

InsufficientData == [reported |-> TRUE, insufficient_data |-> TRUE, score |-> None]
Scored(v) == [reported |-> TRUE, insufficient_data |-> FALSE, score |-> v]

\* LowVolatilityStrategy.calculate_scores for one stock
LowVolatility_score(hist) ==
    IF ~validate_data_sufficiency(hist, LowVolatility_minimum_data)
    THEN InsufficientData
    ELSE IF Min(hist.bars, 252) < RECENT_MINIMUM
    THEN InsufficientData
    ELSE IF Min(hist.bars, 252) - 1 < RETURNS_MINIMUM
    THEN InsufficientData
    ELSE Scored(0 - hist.return_std)

\* MeanReversionStrategy.calculate_scores for one stock: z_score
MeanReversion_score(hist) ==
    IF ~validate_data_sufficiency(hist, MeanReversion_minimum_data)
    THEN InsufficientData
    ELSE IF Min(hist.bars, 200) < 200
    THEN InsufficientData
    ELSE IF hist.close_std = None \/ hist.close_std = 0
    THEN InsufficientData
    ELSE Scored(hist.ratio \div hist.close_std)

\* Week52BreakoutStrategy.calculate_scores for one stock: breakout_ratio
Week52Breakout_score(hist) ==
    IF ~validate_data_sufficiency(hist, Week52_minimum_data)
    THEN InsufficientData
    ELSE IF Min(hist.bars, 252) < RECENT_MINIMUM
    THEN InsufficientData
    ELSE Scored(hist.ratio)

\* MACrossoverStrategy.calculate_scores for one stock: crossover_ratio
MACrossover_score(hist) ==
    IF ~validate_data_sufficiency(hist, MACrossover_minimum_data)
    THEN InsufficientData
    ELSE Scored(hist.ratio)

\* calculate_quality_momentum_score: total_score is 0 for a history that
\* is None, shorter than 120 bars or empty
quality_momentum_score(hist) ==
    IF hist.bars < Momentum_minimum_data THEN 0
    ELSE IF hist.bars = 0 THEN 0
    ELSE hist.ratio

\* MomentumService.calculate_momentum_scores for one stock present in
\* historical_data: momentum_score = momentum_score.get('total_score', 0)
Momentum_score(hist) == Scored(quality_momentum_score(hist))

StrategyScore(strategy, hist) ==
    CASE strategy = "momentum"        -> Momentum_score(hist)
      [] strategy = "week52_breakout" -> Week52Breakout_score(hist)
      [] strategy = "mean_reversion"  -> MeanReversion_score(hist)
      [] strategy = "low_volatility"  -> LowVolatility_score(hist)
      [] strategy = "ma_crossover"    -> MACrossover_score(hist)

NoHistory == [bars |-> 0, close_std |-> None, return_std |-> None, ratio |-> 0]
NotScored == [strategy |-> "", reported |-> FALSE, insufficient_data |-> FALSE,
              score |-> None]

\* the price histories of the model
Histories ==
    {h \in [bars : 0..MaxBars, close_std : {None} \cup (0..MaxStd),
            return_std : {None} \cup (0..MaxStd), ratio : {0, 1}] :
        /\ (h.bars < 2) = (h.close_std = None)
        /\ (h.bars < 3) = (h.return_std = None)
        /\ h.bars = 0 => h.ratio = 0}

\* one strategy scores the history; a behaviour serves one request
ScoreHistory ==
    /\ ~library_result.reported
    /\ \E strategy \in Strategies :
           LET r == StrategyScore(strategy, price_history)
           IN  library_result' = [strategy |-> strategy, reported |-> r.reported,
                                  insufficient_data |-> r.insufficient_data,
                                  score |-> r.score]
    /\ UNCHANGED price_history
    /\ UNCHANGED engineVars
    /\ UNCHANGED singleVars
    /\ UNCHANGED loopVars
    /\ UNCHANGED budgetVars
    /\ UNCHANGED barVars
    /\ UNCHANGED queryVars
    /\ UNCHANGED configVars

\* ------------------------------------------------------------------------
\* The values of a price bar on their way from the provider to tickerprice
\* (YahooFinanceFetcher.fetch_stock_data, DataUpdater._insert_price_data).
\* NaN stands for a missing value.
\* ------------------------------------------------------------------------
NaN == None

\* hist_data.dropna(subset=['open', 'high', 'low', 'close'])
fetch_stock_data_rows(hist_data) ==
    SelectSeq(hist_data, LAMBDA b : /\ b.open # NaN /\ b.high # NaN
                                    /\ b.low # NaN /\ b.close # NaN)

\* data_to_insert.dropna(): a row with any missing value is dropped, every
\* other row is written as it came
rows_to_insert(data) ==
    SelectSeq(data, LAMBDA b : /\ b.open # NaN /\ b.high # NaN /\ b.low # NaN
                               /\ b.close # NaN /\ b.volume # NaN)

\* the bars a provider may return for one day
ProviderBars(d) ==
    [date : {d}, open : {NaN} \cup (1..MaxPrice), high : {NaN} \cup (1..MaxPrice),
     low : {NaN} \cup (1..MaxPrice), close : {NaN} \cup (1..MaxPrice),
     volume : {NaN, 0}]

\* the frames of the model: one bar per day on the first days
RECURSIVE ProviderFrames(_)
ProviderFrames(n) ==
    IF n = 0 THEN {<<>>}
    ELSE ProviderFrames(n - 1)
         \cup {Append(f, b) : f \in {g \in ProviderFrames(n - 1) : Len(g) = n - 1},
                              b \in ProviderBars(n)}

\* no frame fetched
NoFrame == <<>>

\* the price update of one stock: fetch, clean, insert
StorePriceBars ==
    /\ stored_bars = {}
    /\ LET data == rows_to_insert(fetch_stock_data_rows(provider_frame))
       IN  /\ data # <<>>
           /\ stored_bars' = {data[i] : i \in 1..Len(data)}
    /\ UNCHANGED provider_frame
    /\ UNCHANGED engineVars
    /\ UNCHANGED singleVars
    /\ UNCHANGED loopVars
    /\ UNCHANGED budgetVars
    /\ UNCHANGED queryVars
    /\ UNCHANGED configVars
    /\ UNCHANGED libraryVars

\* ------------------------------------------------------------------------
\* The attribute cycle run from its entry to its end by a single replica
\* that is not stopped and not rate limited, against a provider that
\* supplies the same attribute groups of a stock at every fetch
\* ------------------------------------------------------------------------
\* what the provider may supply of a stock at every fetch: everything,
\* everything but the market cap, sector and industry only, nothing
UpstreamKinds == {Fields, Fields \ {"market_cap"}, {"sector_industry"}, {}}

\* answers of fetch_financial_attributes for a stock whose supplied groups
\* are sup: the attributes, or a timeout
UpstreamResponses(sup) ==
    (IF sup = {} THEN {} ELSE {Info(sup)}) \cup {Failure("Read timed out")}

\* AttributePoller._run_attribute_update_cycle of replica "1", all batches
RunAttributeCycle ==
    /\ acyc["1"].pc = "idle"
    /\ ~_should_pause_due_to_rate_limit("1")
    /\ IF get_pending_attribute_stocks(pending) = <<>>
       THEN /\ lastBatch' = [NoBatch EXCEPT !.op = "cycle"]
            /\ UNCHANGED <<pending, attrs, cycle_fetches>>
       ELSE LET p1 == ensure_missing_stocks_in_pending(pending, attrs, stockmetadata)
                p2 == cleanup_completed_attribute_stocks(p1, attrs)
                mine == Shard("1", get_pending_attribute_stocks(p2))
                exhausted_stocks == SeqSet(get_exhausted_retry_stocks(p2, "attributes"))
                missing_attributes == SelectSeq(mine, LAMBDA s : s \notin exhausted_stocks)
            IN  \E resp \in [SeqSet(missing_attributes) -> AttrResponses \cup
                                UNION {UpstreamResponses(k) : k \in UpstreamKinds}] :
                    /\ \A s \in SeqSet(missing_attributes) :
                           resp[s] \in UpstreamResponses(upstream[s])
                    /\ LET res == update_attributes_for_stocks(
                                      [p |-> p2, at |-> attrs], missing_attributes, resp)
                       IN  /\ pending' = res.db.p
                           /\ attrs' = res.db.at
                    /\ lastBatch' = [NoBatch EXCEPT !.op = "cycle",
                                        !.fetched = SeqSet(missing_attributes)]
                    /\ cycle_fetches' =
                           [s \in StockSet |->
                               IF s \in SeqSet(missing_attributes) /\ upstream[s] # Fields
                               THEN Min(cycle_fetches[s] + 1, FetchCountCap)
                               ELSE cycle_fetches[s]]
    /\ fetchers' = [s \in StockSet |-> {}]
    /\ UNCHANGED <<stockmetadata, now, apoll, acyc, upstream>>
    /\ UNCHANGED priceVars
    /\ UNCHANGED queryVars
    /\ UNCHANGED configVars
    /\ UNCHANGED libraryVars
    /\ UNCHANGED barVars
    /\ UNCHANGED loopVars
    /\ UNCHANGED singleVars

\* ------------------------------------------------------------------------
\* The polling loops of the three poller objects of the data service
\* (PricePoller, AttributePoller, PollerService): start_*_polling is a
\* coroutine that sets is_running and runs "while self.is_running" until it
\* finds the flag false; between two steps a loop is suspended in a sleep
\* ------------------------------------------------------------------------
Pollers == {"price", "attribute", "generic"}

\* start_price_polling / start_attribute_polling / start_polling, up to the
\* first sleep of its loop: "if self.is_running: return", then the flag is
\* set and the loop entered
start_polling(k) ==
    /\ ~poller_is_running[k]
    /\ polling_loops[k] < MaxLoops
    /\ poller_is_running' = [poller_is_running EXCEPT ![k] = TRUE]
    /\ polling_loops' = [polling_loops EXCEPT ![k] = @ + 1]
    /\ UNCHANGED engineVars
    /\ UNCHANGED singleVars
    /\ UNCHANGED queryVars
    /\ UNCHANGED configVars
    /\ UNCHANGED libraryVars
    /\ UNCHANGED barVars
    /\ UNCHANGED budgetVars

\* stop_price_polling / stop_attribute_polling / stop_polling
stop_polling(k) ==
    /\ poller_is_running[k]
    /\ poller_is_running' = [poller_is_running EXCEPT ![k] = FALSE]
    /\ UNCHANGED polling_loops
    /\ UNCHANGED engineVars
    /\ UNCHANGED singleVars
    /\ UNCHANGED queryVars
    /\ UNCHANGED configVars
    /\ UNCHANGED libraryVars
    /\ UNCHANGED barVars
    /\ UNCHANGED budgetVars

\* a loop of poller k wakes from its sleep and evaluates
\* "while self.is_running": it goes round once more and sleeps again, or
\* leaves the loop and returns through "finally: self.is_running = False"
PollingLoopWakes(k) ==
    /\ polling_loops[k] > 0
    /\ IF poller_is_running[k]
       THEN UNCHANGED <<poller_is_running, polling_loops>>
       ELSE /\ poller_is_running' = [poller_is_running EXCEPT ![k] = FALSE]
            /\ polling_loops' = [polling_loops EXCEPT ![k] = @ - 1]
    /\ UNCHANGED engineVars
    /\ UNCHANGED singleVars
    /\ UNCHANGED queryVars
    /\ UNCHANGED configVars
    /\ UNCHANGED libraryVars
    /\ UNCHANGED barVars
    /\ UNCHANGED budgetVars

\* ------------------------------------------------------------------------
\* The single-symbol update path (DataUpdater.update_stock_price_data).
\* price_rows counts the tickerprice rows of a stock and date; tickerprice
\* holds the (stock, date) pairs that have a row
\* ------------------------------------------------------------------------
RowDates(rows) == {d \in DOMAIN rows : rows[d] > 0}

MaxOf(S) == CHOOSE d \in S : \A e \in S : e <= d

\* start_date of the fetch: the day after the last stored bar, yesterday
\* when that is today, a year back (here: every date) without stored bars
fetch_start_date(rows, today) ==
    IF RowDates(rows) = {} THEN 0
    ELSE IF MaxOf(RowDates(rows)) + 1 = today THEN today - 1
    ELSE MaxOf(RowDates(rows)) + 1

\* answers of ticker.history for start_date..today: no data, bars of some
\* dates of that range, or a frame whose only row has a NaN price
SingleResponses(start_date, today) ==
    {NoData}
    \cup {Bars({Row(d, TRUE) : d \in ds}, TRUE) :
            ds \in SUBSET {d \in 0..MaxDay : start_date <= d /\ d <= today} \ {{}}}
    \cup {Bars({Row(today, FALSE)}, TRUE)}

\* update_stock_price_data(s) on the rows of s and the database record db;
\* unique tells whether the table rejects a second row of a (stock, date)
update_stock_price_data(rows, db, s, today, resp, unique) ==
    LET db0 == [db EXCEPT !.tr[s] = mark_update_started(@)]
        existing == RowDates(rows)
        completed(d) == [d EXCEPT !.lpd[s] = MaxOf(existing),
                                  !.tr[s] = mark_update_completed(@, today)]
        failed(d) == [d EXCEPT !.tr[s] = mark_update_failed(@)]
        new_data == {r \in resp.rows : r.valid}
        new_dates == {r.date : r \in new_data}
    IN  IF existing # {} /\ MaxOf(existing) + 1 > today
        THEN [rows |-> rows, db |-> completed(db0), ok |-> TRUE,
              returned |-> {}, written |-> {}]
        ELSE IF resp.kind # "bars"
        THEN [rows |-> rows, db |-> failed(db0), ok |-> FALSE,
              returned |-> {}, written |-> {}]
        ELSE IF new_data = {}
        THEN [rows |-> rows,
              db |-> IF existing # {} THEN completed(db0) ELSE db0,
              ok |-> TRUE, returned |-> {}, written |-> {}]
        ELSE IF unique /\ new_dates \cap existing # {}
        THEN [rows |-> rows, db |-> failed(db0), ok |-> FALSE,
              returned |-> new_dates, written |-> {}]
        ELSE LET rows1 == [d \in DOMAIN rows |->
                              IF d \in new_dates THEN rows[d] + 1 ELSE rows[d]]
                 db1 == [db0 EXCEPT
                            !.tp = @ \cup {[stock |-> s, date |-> d] : d \in new_dates},
                            !.lpd[s] = MaxOf(RowDates(rows1))]
                 db2 == _calculate_and_store_momentum(db1, s, today, resp.storeOk)
                 db3 == [db2 EXCEPT !.tr[s] = mark_update_completed(@, today)]
             IN  [rows |-> rows1, db |-> db3, ok |-> TRUE,
                  returned |-> new_dates, written |-> new_dates]

NoUpdate == [called |-> FALSE, stock |-> "A", ok |-> TRUE, existing |-> {},
             returned |-> {}, written |-> {}]

\* one call of update_stock_price_data(s)
UpdateStockPriceData(s) ==
    /\ s \in SeqSet(stockmetadata)
    /\ \E resp \in SingleResponses(fetch_start_date(price_rows[s], day), day) :
        LET res == update_stock_price_data(price_rows[s], DbOf("price"), s, day,
                                           resp, unique_stock_date)
        IN  /\ \A d \in DOMAIN res.rows : res.rows[d] <= MaxCopies
            /\ price_rows' = [price_rows EXCEPT ![s] = res.rows]
            /\ tickerprice' = res.db.tp
            /\ momentum_scores' = res.db.ms
            /\ tracker' = res.db.tr
            /\ cache' = [cache EXCEPT !["price"] = res.db.ca]
            /\ computedToday' = res.db.ct
            /\ last_price_date' = res.db.lpd
            /\ single_result' = [called |-> TRUE, stock |-> s, ok |-> res.ok,
                                 existing |-> RowDates(price_rows[s]),
                                 returned |-> res.returned,
                                 written |-> res.written]
    /\ UNCHANGED unique_stock_date
    /\ UNCHANGED <<stockmetadata, pending, day, afterClose, is_running, cyc, fresh,
                   lastWave, cleanToday>>
    /\ UNCHANGED attrVars
    /\ UNCHANGED queryVars
    /\ UNCHANGED configVars
    /\ UNCHANGED libraryVars
    /\ UNCHANGED barVars
    /\ UNCHANGED budgetVars
    /\ UNCHANGED loopVars

\* the process stops inside update_stock_price_data(s), after
\* mark_update_started and before anything else is written
UpdateInterrupted(s) ==
    /\ s \in SeqSet(stockmetadata)
    /\ tracker' = [tracker EXCEPT ![s] = mark_update_started(@)]
    /\ single_result' = NoUpdate
    /\ UNCHANGED <<price_rows, unique_stock_date>>
    /\ UNCHANGED <<stockmetadata, pending, day, afterClose, tickerprice, momentum_scores,
                   cache, is_running, cyc, fresh, computedToday, lastWave, cleanToday,
                   last_price_date>>
    /\ UNCHANGED attrVars
    /\ UNCHANGED queryVars
    /\ UNCHANGED configVars
    /\ UNCHANGED libraryVars
    /\ UNCHANGED barVars
    /\ UNCHANGED budgetVars
    /\ UNCHANGED loopVars

\* ------------------------------------------------------------------------
\* Specification of the price side
\* ------------------------------------------------------------------------
InitEngine(meta) ==
    /\ stockmetadata = meta
    /\ day = 1
    /\ afterClose = FALSE
    /\ tickerprice = {}
    /\ momentum_scores = {}
    /\ pending = <<>>
    /\ tracker = [s \in StockSet |-> NoRow]
    /\ cache = [u \in Updaters |-> [s \in StockSet |-> None]]
    /\ is_running = FALSE
    /\ cyc = Idle
    /\ fresh = {}
    /\ computedToday = [s \in StockSet |-> 0]
    /\ last_price_date = [s \in StockSet |-> None]
    /\ lastWave = NoWave
    /\ cleanToday = FALSE
    /\ now = 0
    /\ attrs = [s \in StockSet |-> {}]
    /\ apoll = [i \in Instances |-> NewPoller]
    /\ acyc = [i \in Instances |-> AttrIdle]
    /\ lastBatch = NoBatch
    /\ fetchers = [s \in StockSet |-> {}]

\* no read request served
PipelineIdle == pipeline_result = NoResult
RankingIdle ==
    /\ daily_volatility = [s \in StockSet |-> None]
    /\ scores_response = NoScores
BestDateIdle ==
    /\ score_counts = <<>>
    /\ best_date = NotAsked
MarketIdle ==
    /\ ist = [weekday |-> 0, minute |-> 0]
    /\ market_decision = NoDecision

ConfigIdle ==
    /\ momentum_config = MomentumWeights_defaults
    /\ config_call = NoCall
    /\ service_cache = NoScore
    /\ last_score = NoScore

LibraryIdle ==
    /\ price_history = NoHistory
    /\ library_result = NotScored

BarsIdle ==
    /\ provider_frame = NoFrame
    /\ stored_bars = {}

BudgetIdle ==
    /\ upstream = [s \in StockSet |-> Fields]
    /\ cycle_fetches = [s \in StockSet |-> 0]

LoopsIdle ==
    /\ poller_is_running = [k \in Pollers |-> FALSE]
    /\ polling_loops = [k \in Pollers |-> 0]


SingleIdle ==
    /\ price_rows = [s \in StockSet |-> [d \in 0..MaxDay |-> 0]]
    /\ unique_stock_date = TRUE
    /\ single_result = NoUpdate


\* the engine with no read request served and no price history scored
InitOn(meta) ==
    /\ InitEngine(meta)
    /\ strategy_scores = [g \in Strategies |-> [s \in StockSet |-> None]]
    /\ PipelineIdle
    /\ RankingIdle
    /\ BestDateIdle
    /\ MarketIdle
    /\ ConfigIdle
    /\ LibraryIdle
    /\ BarsIdle
    /\ BudgetIdle
    /\ LoopsIdle
    /\ SingleIdle

Init == InitOn(<<"A", "B">>)

Next ==
    \/ StartPolling
    \/ StopPolling
    \/ ScheduledStart(CycleResponses(day))
    \/ ManualStart(CycleResponses(day))
    \/ RetryWave(CycleResponses(day))
    \/ MarketClose
    \/ Midnight

Spec == Init /\ [][Next]_vars

\* ------------------------------------------------------------------------
\* Specification of the scoring paths: the generic poller, targeted updates
\* and manually triggered price cycles (the price loop is never started, so
\* a cycle ends after wave 1), with store errors and NaN rows
\* ------------------------------------------------------------------------
NextScore ==
    \/ ManualStart(ScoreResponses(day))
    \/ GenericCycle(ScoreResponses(day))
    \/ UpdateSpecific(ScoreResponses(day))
    \/ MarketClose
    \/ Midnight

InitScore == InitOn(<<"A">>)

SpecScore == InitScore /\ [][NextScore]_vars

\* ------------------------------------------------------------------------
\* Specification of the retry ledger of one stock under manual price cycles
\* and the admin reset
\* ------------------------------------------------------------------------
NextReset ==
    \/ ManualStart(CycleResponses(day))
    \/ ResetRetries
    \/ MarketClose
    \/ Midnight

SpecReset == InitScore /\ [][NextReset]_vars

\* ------------------------------------------------------------------------
\* Specification of the attribute side: one replica (instance "1") over
\* three stocks
\* ------------------------------------------------------------------------
NextAttr ==
    \/ AttrStart("1")
    \/ AttrStop("1")
    \/ AttrCycle("1")
    \/ AttrNextBatch("1")
    \/ ManualAttrUpdate("1")
    \/ Tick

InitAttr == InitOn(<<"A", "B", "C">>)

SpecAttr == InitAttr /\ [][NextAttr]_vars

\* ------------------------------------------------------------------------
\* Specification of two replicas (instances "1" and "2") of the attribute
\* poller on one database; their cycles interleave at the sleeps between
\* batches; the clock stands still
\* ------------------------------------------------------------------------
NextAttr2 ==
    \/ \E i \in Instances : AttrStart(i)
    \/ \E i \in Instances : AttrCycle(i)
    \/ \E i \in Instances : AttrNextBatch(i)
    \/ ManualAttrUpdate("1")

SpecAttr2 == InitAttr /\ [][NextAttr2]_vars

\* ------------------------------------------------------------------------
\* Specification of the pipeline executor over three stocks: the score
\* tables are drawn at the start, every step serves one request
\* ------------------------------------------------------------------------
InitPipeline ==
    /\ InitEngine(<<"A", "B", "C">>)
    /\ strategy_scores \in ScoreTables
    /\ PipelineIdle
    /\ RankingIdle
    /\ BestDateIdle
    /\ MarketIdle
    /\ ConfigIdle
    /\ LibraryIdle
    /\ BarsIdle
    /\ BudgetIdle
    /\ LoopsIdle
    /\ SingleIdle

NextPipeline == ExecutePipeline

SpecPipeline == InitPipeline /\ [][NextPipeline]_vars

\* ------------------------------------------------------------------------
\* Specification of the ranking endpoint over three stocks: the score and
\* volatility tables are drawn at the start, every step serves one request
\* ------------------------------------------------------------------------
InitRanking ==
    /\ InitEngine(<<"A", "B", "C">>)
    /\ strategy_scores \in ScoreTables
    /\ daily_volatility \in VolatilityTables
    /\ scores_response = NoScores
    /\ PipelineIdle
    /\ BestDateIdle
    /\ MarketIdle
    /\ ConfigIdle
    /\ LibraryIdle
    /\ BarsIdle
    /\ BudgetIdle
    /\ LoopsIdle
    /\ SingleIdle

NextRanking == CalculateStrategyScores

SpecRanking == InitRanking /\ [][NextRanking]_vars

\* ------------------------------------------------------------------------
\* Specification of the best scoring date: the grouped score rows are drawn
\* at the start
\* ------------------------------------------------------------------------
InitBestDate ==
    /\ InitEngine(<<"A">>)
    /\ strategy_scores = [g \in Strategies |-> [s \in StockSet |-> None]]
    /\ score_counts \in ScoreCountFrames
    /\ best_date = NotAsked
    /\ PipelineIdle
    /\ RankingIdle
    /\ MarketIdle
    /\ ConfigIdle
    /\ LibraryIdle
    /\ BarsIdle
    /\ BudgetIdle
    /\ LoopsIdle
    /\ SingleIdle

NextBestDate == GetBestMomentumDate

SpecBestDate == InitBestDate /\ [][NextBestDate]_vars

\* ------------------------------------------------------------------------
\* Specification of the market-hours questions: the instant is drawn at the
\* start
\* ------------------------------------------------------------------------
InitMarketHours ==
    /\ InitEngine(<<"A">>)
    /\ strategy_scores = [g \in Strategies |-> [s \in StockSet |-> None]]
    /\ ist \in Instants
    /\ market_decision = NoDecision
    /\ PipelineIdle
    /\ RankingIdle
    /\ BestDateIdle
    /\ ConfigIdle
    /\ LibraryIdle
    /\ BarsIdle
    /\ BudgetIdle
    /\ LoopsIdle
    /\ SingleIdle

NextMarketHours ==
    \/ ShouldCalculateMomentum
    \/ ShouldUpdateData
    \/ GetNextMarketOpenTime

SpecMarketHours == InitMarketHours /\ [][NextMarketHours]_vars

\* ------------------------------------------------------------------------
\* Specification of the momentum configuration: the service starts with the
\* default weights and an empty cache
\* ------------------------------------------------------------------------
InitConfig ==
    /\ InitEngine(<<"A">>)
    /\ strategy_scores = [g \in Strategies |-> [s \in StockSet |-> None]]
    /\ PipelineIdle
    /\ RankingIdle
    /\ BestDateIdle
    /\ MarketIdle
    /\ ConfigIdle
    /\ LibraryIdle
    /\ BarsIdle
    /\ BudgetIdle
    /\ LoopsIdle
    /\ SingleIdle

NextConfig ==
    \/ UpdateMomentumConfig
    \/ ResetMomentumConfig
    \/ CalculateMomentumScores

SpecConfig == InitConfig /\ [][NextConfig]_vars

\* ------------------------------------------------------------------------
\* Specification of the Scoring Library: the price history is drawn at the
\* start
\* ------------------------------------------------------------------------
InitLibrary ==
    /\ InitEngine(<<"A">>)
    /\ strategy_scores = [g \in Strategies |-> [s \in StockSet |-> None]]
    /\ PipelineIdle
    /\ RankingIdle
    /\ BestDateIdle
    /\ MarketIdle
    /\ ConfigIdle
    /\ price_history \in Histories
    /\ library_result = NotScored
    /\ BarsIdle
    /\ BudgetIdle
    /\ LoopsIdle
    /\ SingleIdle

NextLibrary == ScoreHistory

SpecLibrary == InitLibrary /\ [][NextLibrary]_vars

\* ------------------------------------------------------------------------
\* Specification of the stored price bars: the provider's frame is drawn at
\* the start
\* ------------------------------------------------------------------------
InitBars ==
    /\ InitEngine(<<"A">>)
    /\ strategy_scores = [g \in Strategies |-> [s \in StockSet |-> None]]
    /\ PipelineIdle
    /\ RankingIdle
    /\ BestDateIdle
    /\ MarketIdle
    /\ ConfigIdle
    /\ LibraryIdle
    /\ provider_frame \in ProviderFrames(MaxFrame)
    /\ stored_bars = {}
    /\ BudgetIdle
    /\ LoopsIdle
    /\ SingleIdle

NextBars == StorePriceBars

SpecBars == InitBars /\ [][NextBars]_vars

\* ------------------------------------------------------------------------
\* Specification of the fetch budget: what the provider supplies of B and C
\* is drawn at the start; A is updated manually
\* ------------------------------------------------------------------------
InitBudget ==
    /\ InitEngine(<<"A", "B", "C">>)
    /\ strategy_scores = [g \in Strategies |-> [s \in StockSet |-> None]]
    /\ PipelineIdle
    /\ RankingIdle
    /\ BestDateIdle
    /\ MarketIdle
    /\ ConfigIdle
    /\ LibraryIdle
    /\ BarsIdle
    /\ upstream \in {u \in [StockSet -> UpstreamKinds] : u["A"] = Fields}
    /\ cycle_fetches = [s \in StockSet |-> 0]
    /\ LoopsIdle
    /\ SingleIdle

NextBudget ==
    \/ RunAttributeCycle
    \/ ManualAttrUpdate("1")

SpecBudget == InitBudget /\ [][NextBudget]_vars

\* ------------------------------------------------------------------------
\* Specification of the start and stop requests to the three pollers
\* ------------------------------------------------------------------------
InitLoops == InitOn(<<"A">>)

NextLoops ==
    \/ \E k \in Pollers : start_polling(k)
    \/ \E k \in Pollers : stop_polling(k)
    \/ \E k \in Pollers : PollingLoopWakes(k)

SpecLoops == InitLoops /\ [][NextLoops]_vars

\* ------------------------------------------------------------------------
\* Specification of the single-symbol update path over one stock, on a
\* table with or without UNIQUE(stock, date)
\* ------------------------------------------------------------------------
InitSingle ==
    /\ InitEngine(<<"A">>)
    /\ strategy_scores = [g \in Strategies |-> [s \in StockSet |-> None]]
    /\ PipelineIdle
    /\ RankingIdle
    /\ BestDateIdle
    /\ MarketIdle
    /\ ConfigIdle
    /\ LibraryIdle
    /\ BarsIdle
    /\ BudgetIdle
    /\ LoopsIdle
    /\ price_rows = [s \in StockSet |-> [d \in 0..MaxDay |-> 0]]
    /\ unique_stock_date \in BOOLEAN
    /\ single_result = NoUpdate

NextSingle ==
    \/ \E s \in StockSet : UpdateStockPriceData(s)
    \/ \E s \in StockSet : UpdateInterrupted(s)
    \/ MarketClose
    \/ Midnight

SpecSingle == InitSingle /\ [][NextSingle]_vars

\* ------------------------------------------------------------------------
\* Properties of the price side
\* ------------------------------------------------------------------------
PriceExhausted == SeqSet(get_exhausted_retry_stocks(pending, "prices"))

\* every stockmetadata stock has a bar dated today or yesterday
AllRecent ==
    \A s \in SeqSet(stockmetadata) :
        \E b \in tickerprice : b.stock = s /\ b.date \in {day, day - 1}

\* a price update cycle starts (scheduled or manual)
CycleStart ==
    \/ ScheduledStart(CycleResponses(day))
    \/ ManualStart(CycleResponses(day))

\* C1: every pending_operations row has retry_count <= MAX_RETRIES (5) after
\* any sequence of cycles and manual updates.
C1_RetryCountBounded ==
    \A i \in 1..Len(pending) : pending[i].retry_count <= MAX_RETRIES

\* C2 (as stated): a symbol without a prior 'prices' row that failed in each of
\* the five waves of one cycle is in Exhausted('prices') after wave 5.
C2_FiveFailuresExhaust ==
    \A s \in lastWave.fiveFail : s \in PriceExhausted

\* C2 (amended): a symbol without a prior 'prices' row that failed in each of
\* the five waves of one cycle has a 'prices' row with retry_count = 4 after
\* wave 5: it is still in the backlog and not in Exhausted('prices').
C2_FiveFailuresLeaveFour ==
    \A s \in lastWave.fiveFail :
        /\ HasPending(pending, s, "prices")
        /\ RetryCount(pending, s, "prices") = max_retries - 1
        /\ s \notin PriceExhausted
        /\ s \in SeqSet(_get_pending_price_stocks(pending))

C2_Witness ==
    \E s \in lastWave.fiveFail :
        HasPending(pending, s, "prices") /\ cyc.pc = "idle"

\* C3: a symbol whose 'prices' row has retry_count >= 5 is fetched in no wave
\* (wave 1 included) of a later cycle.
C3_ExhaustedNotFetched == lastWave.badFetch = {}

\* C4: a symbol whose price update reported success today has a momentum
\* score row with calculation_date = today afterwards.
C4_SuccessHasScoreRow == lastWave.unscored = {}

C7_CycleTerminates ==
    [][/\ cyc'.attempt <= max_retries
       /\ (RetryWave(CycleResponses(day)) /\ _get_pending_price_stocks(pending) = <<>>)
            => (cyc'.pc = "idle" /\ lastWave'.op = "drained" /\ UNCHANGED dbVars)
       /\ lastWave'.op = "wave" => cyc.attempt < max_retries + 1]_vars

C7_Witness ==
    /\ lastWave.op = "drained"
    /\ cyc.pc = "idle"

\* C8 (as stated): a cycle started after a cycle that finished today with
\* success for every stock changes no price bar, score row, pending row or
\* tracker row.
C8_SecondRunNoop ==
    [][(CycleStart /\ cleanToday) => UNCHANGED dbVars]_vars

\* C8 (amended): a cycle started when every stockmetadata stock has a bar
\* dated today or yesterday changes no price bar, score row, pending row or
\* tracker row.
C8_NoopWhenAllRecent ==
    [][(CycleStart /\ AllRecent) => UNCHANGED dbVars]_vars

C8_Witness ==
    /\ lastWave.op = "skip"
    /\ cleanToday
    /\ AllRecent

\* C12: every change of a symbol's update_status follows the transition
\* diagram; a tracker row becomes completed or failed only from in_progress.
C12_TrackerFollowsDiagram ==
    [][\A s \in StockSet :
          tracker'[s].status # tracker[s].status =>
              <<tracker[s].status, tracker'[s].status>> \in
                  {<<"absent", "pending">>, <<"pending", "in_progress">>,
                   <<"in_progress", "completed">>, <<"in_progress", "failed">>,
                   <<"failed", "in_progress">>}]_vars

\* C13: after the admin reset of a kind has returned, every pending row of
\* that kind has retry_count = 0 (so no symbol of that kind is exhausted).
C13_ResetClearsRetries ==
    lastWave.op = "reset" =>
        /\ \A j \in 1..Len(pending) :
              pending[j].kind = "prices" => pending[j].retry_count = 0
        /\ PriceExhausted = {}

\* ------------------------------------------------------------------------
\* Properties of the scoring paths
\* ------------------------------------------------------------------------
\* C5 (as stated): for each symbol the score is computed at most once per
\* calendar day, across cycles, the generic poller and manual updates.
C5_ScoredOncePerDay == \A s \in StockSet : computedToday[s] <= 1

\* C5 (amended): for each symbol and calendar day there is at most one
\* momentum score row, however often the score was computed that day.
C5_OneScoreRowPerDay ==
    \A r1, r2 \in momentum_scores :
        (r1.stock = r2.stock /\ r1.calculation_date = r2.calculation_date)
            => r1 = r2

C5_Witness ==
    \E s \in StockSet :
        /\ computedToday[s] >= 2
        /\ HasScore(momentum_scores, s, day)

C10_QuietDuringCooldown ==
    lastBatch.inCooldown =>
        /\ lastBatch.fetched = {}
        /\ ~lastBatch.ledgerChanged

\* C11: with two replicas running without coordination no symbol is fetched
\* by both replicas for the same backlog entry.
C11_NoDoubleFetch ==
    \A s \in StockSet : Cardinality(fetchers[s]) <= 1

\* ------------------------------------------------------------------------
\* Properties of the pipeline executor
\* ------------------------------------------------------------------------
\* the filters and the market-cap limit of stage k of the served request,
\* applied to the whole metadata universe
OwnUniverse(k) ==
    LET cfg == pipeline_result.strategies[k]
        limit == IF cfg.marketCapLimit # None THEN cfg.marketCapLimit
                 ELSE IF cfg.market_cap_limit # None THEN cfg.market_cap_limit
                 ELSE Len(stockmetadata)
    IN  {stockmetadata[j] : j \in {n \in 1..Len(stockmetadata) :
             /\ n <= limit
             /\ cfg.industry # "" => StockIndustry[stockmetadata[n]] = cfg.industry
             /\ cfg.sector # "" => StockSector[stockmetadata[n]] = cfg.sector}}

\* C14: in the response of a pipeline run, every stage k > 1 reports as its
\* input exactly the symbols stage k-1 emitted, in that order (so its
\* inputCount is the outputCount of stage k-1, whatever its own filters
\* are), it emits only symbols of that input, and finalStocks is the output
\* of the last stage that ran.
C14_StageInputIsPreviousOutput ==
    LET r == pipeline_result.results
    IN  /\ \A k \in 2..Len(r) :
              /\ r[k].inputSymbols = Symbols(r[k - 1].stocks)
              /\ r[k].inputCount = r[k - 1].outputCount
              /\ r[k].universe = "previous_output"
              /\ SeqSet(Symbols(r[k].stocks)) \subseteq SeqSet(Symbols(r[k - 1].stocks))
        /\ r # <<>> => pipeline_result.finalStocks = r[Len(r)].stocks

\* a second stage ran on a previous output that differs from what its own
\* filters select, and emitted something
C14_Witness ==
    LET r == pipeline_result.results
    IN  /\ Len(r) = 2
        /\ r[2].outputCount > 0
        /\ r[1].outputCount < r[1].inputCount
        /\ OwnUniverse(2) # SeqSet(Symbols(r[1].stocks))
        /\ OwnUniverse(2) # SeqSet(stockmetadata)

\* C16: a stage that emits zero rows is the last entry of the results and
\* finalStocks is empty; the results are the stages of the request in order,
\* and stages of the request are missing only after an empty stage.
C16_EmptyStageHalts ==
    LET r == pipeline_result.results
        req == pipeline_result.strategies
    IN  /\ \A k \in 1..Len(r) :
              r[k].outputCount = 0 =>
                  /\ Len(r) = k
                  /\ pipeline_result.finalStocks = <<>>
        /\ Len(r) <= Len(req)
        /\ \A k \in 1..Len(r) :
              r[k].strategyId \in {req[k].strategyId, req[k].strategy_id}
        /\ (req # <<>> /\ Len(r) < Len(req)) => (r # <<>> /\ r[Len(r)].outputCount = 0)

\* the first of two stages had symbols to work on and emitted none
C16_Witness ==
    LET r == pipeline_result.results
    IN  /\ Len(pipeline_result.strategies) = 2
        /\ Len(r) = 1
        /\ r[1].inputCount > 0
        /\ r[1].outputCount = 0
        /\ pipeline_result.finalStocks = <<>>

\* the output count a stage of the request asks for, in whichever spelling
RequestedCount(cfg) ==
    IF cfg.outputCount # None THEN cfg.outputCount ELSE cfg.output_count

\* C15: every stage of the response emits exactly min(output_count, |input|)
\* symbols of its input, none of them scored lower under the stage's
\* strategy than an input symbol it left out (a symbol without a score
\* counts as lowest), in descending order of that score.
C15_StageEmitsBestScored ==
    LET r == pipeline_result.results
        req == pipeline_result.strategies
    IN  \A k \in 1..Len(r) :
          LET score == strategy_scores[r[k].strategyId]
              inp == SeqSet(r[k].inputSymbols)
              out == Symbols(r[k].stocks)
          IN  /\ Len(out) = Min(RequestedCount(req[k]), r[k].inputCount)
              /\ SeqSet(out) \subseteq inp
              /\ \A e \in SeqSet(out) : \A n \in inp \ SeqSet(out) : score[n] <= score[e]
              /\ \A j \in 1..(Len(out) - 1) : score[out[j]] >= score[out[j + 1]]

\* C17: when every stage of the request asks for the same output count m,
\* in either spelling, finalStocks has at most m entries.
C17_UniformCountBoundsFinal ==
    LET req == pipeline_result.strategies
    IN  \A m \in 0..MaxCount :
          (req # <<>> /\ \A k \in 1..Len(req) : RequestedCount(req[k]) = m)
              => Len(pipeline_result.finalStocks) <= m

\* ------------------------------------------------------------------------
\* Properties of the ranking endpoint, the score store and the market hours
\* ------------------------------------------------------------------------
\* the stocks the query of the served ranking request selects that have a
\* daily volatility
RankedUniverse ==
    LET q == scores_response.filters
    IN  {stockmetadata[j] : j \in {n \in 1..Len(stockmetadata) :
             /\ n <= q.limit
             /\ q.industry # "" => StockIndustry[stockmetadata[n]] = q.industry
             /\ q.sector # "" => StockSector[stockmetadata[n]] = q.sector
             /\ daily_volatility[stockmetadata[n]] # None}}

\* C18: the top_stocks of a low_volatility response are the min(top_n,
\* number of stocks with sufficient data) selected stocks of lowest daily
\* volatility, the least volatile first.
C18_TopAreLeastVolatile ==
    scores_response.strategy_name = "low_volatility" =>
        LET top == Symbols(scores_response.top_stocks)
        IN  /\ Len(top) = Min(scores_response.filters.top_n, Cardinality(RankedUniverse))
            /\ SeqSet(top) \subseteq RankedUniverse
            /\ \A e \in SeqSet(top) : \A n \in RankedUniverse \ SeqSet(top) :
                  daily_volatility[e] <= daily_volatility[n]
            /\ \A j \in 1..(Len(top) - 1) :
                  daily_volatility[top[j]] <= daily_volatility[top[j + 1]]

\* C19: get_best_momentum_date answers the most recent calculation_date
\* with more than 1000 score rows when there is one; otherwise a date among
\* the 30 most recent persisted dates that has the highest row count among
\* those 30 (None when no score row exists).
C19_BestDateInLastThirty ==
    best_date.asked =>
        LET good == {j \in 1..Len(score_counts) :
                        score_counts[j].stock_count > GOOD_STOCK_COUNT}
            recent == 1..Min(30, Len(score_counts))
        IN  IF good # {}
            THEN \E j \in good :
                    /\ best_date.date = score_counts[j].calculation_date
                    /\ \A i \in good : j <= i
            ELSE IF score_counts = <<>> THEN best_date.date = None
            ELSE \E j \in recent :
                    /\ best_date.date = score_counts[j].calculation_date
                    /\ \A i \in recent :
                          score_counts[i].stock_count <= score_counts[j].stock_count

\* C20: should_calculate_momentum and should_update_data answer true exactly
\* when the IST instant is on a weekday and after the market close of 15:30.
C20_TrueIffWeekdayAfterClose ==
    market_decision.op \in {"should_calculate_momentum", "should_update_data"} =>
        (market_decision.answer <=> (ist.weekday < 5 /\ ist.minute > MARKET_CLOSE_TIME))

\* ------------------------------------------------------------------------
\* Properties of the momentum configuration
\* ------------------------------------------------------------------------
\* C21: after any sequence of update and reset calls the stored weights sum
\* to 1.0 within 0.01, and so do the weights used for every returned score
C21_WeightsSumToOne ==
    /\ Abs(total_weights(momentum_config) - One) < WeightTolerance
    /\ last_score.computed =>
           Abs(total_weights(last_score.weights) - One) < WeightTolerance

\* C22: after a successful update the service cache is empty until the next
\* score is computed, and every score returned afterwards is the weighted
\* sum of its factors under the stored weights
C22_ScoresUseUpdatedWeights ==
    (config_call.op = "update" /\ config_call.ok) =>
        IF last_score.computed
        THEN Abs(last_score.total_score
                 - weighted_sum(momentum_config, last_score.normalized_scores))
                 < WeightTolerance
        ELSE ~service_cache.computed

\* ------------------------------------------------------------------------
\* Properties of the Scoring Library
\* ------------------------------------------------------------------------
\* C23: on an empty price history each of the five strategies reports
\* insufficient_data and no numeric score
C23_EmptyHistoryIsInsufficient ==
    (library_result.reported /\ price_history.bars = 0) =>
        /\ library_result.insufficient_data
        /\ library_result.score = None

\* C24: when the standard deviation over the strategy's window is zero, the
\* low-volatility strategy (daily returns) and the mean-reversion strategy
\* (closes) return a null score
C24_ZeroDeviationGivesNull ==
    /\ (library_result.reported /\ library_result.strategy = "low_volatility"
           /\ price_history.return_std = 0) =>
           (library_result.insufficient_data /\ library_result.score = None)
    /\ (library_result.reported /\ library_result.strategy = "mean_reversion"
           /\ price_history.close_std = 0) =>
           (library_result.insufficient_data /\ library_result.score = None)

\* ------------------------------------------------------------------------
\* Properties of the stored price bars
\* ------------------------------------------------------------------------
\* C25: every stored price bar has low <= min(open, close) and
\* max(open, close) <= high, whatever the provider returned
C25_StoredBarsAreOrdered ==
    \A b \in stored_bars :
        /\ b.low <= b.open /\ b.low <= b.close
        /\ b.open <= b.high /\ b.close <= b.high

\* ------------------------------------------------------------------------
\* Properties of the attribute backlog
\* ------------------------------------------------------------------------
\* the step is the start of an attribute cycle of replica i that the
\* cooldown does not pause
UnpausedCycleStart(i) ==
    /\ acyc[i].pc = "idle"
    /\ lastBatch'.inst = i
    /\ lastBatch'.op \in {"skip", "batch"}

\* a stockmetadata row with sector, industry, current_price or market_cap null
MissingCritical(at, s) ==
    ~({"sector_industry", "current_price", "market_cap"} \subseteq at[s])

\* C26: an attribute cycle that is not paused enqueues every metadata symbol
\* with a critical attribute missing and no 'attributes' pending row,
\* whatever the ledger held at the start (the row may be gone again at the
\* end of the step when the same cycle fetched the symbol or cleaned it up)
C26_CycleEnqueuesMissing ==
    [][\A i \in Instances : UnpausedCycleStart(i) =>
          \A s \in SeqSet(stockmetadata) :
              (MissingCritical(attrs, s) /\ ~HasPending(pending, s, "attributes")) =>
                  \/ HasPending(pending', s, "attributes")
                  \/ s \in lastBatch'.fetched
                  \/ /\ "sector_industry" \in attrs[s]
                     /\ ~({"metrics", "current_price"} \subseteq attrs[s])]_vars

\* C27: a symbol of which the provider never supplies some attribute group
\* is fetched by the attribute cycles at most MAX_RETRIES times when there
\* is no admin reset
C27_FetchesAreBounded ==
    \A s \in SeqSet(stockmetadata) :
        upstream[s] # Fields => cycle_fetches[s] <= MAX_RETRIES

\* ------------------------------------------------------------------------
\* Properties of the outcome of a price wave
\* ------------------------------------------------------------------------
\* C28: after a price wave has processed a symbol, a reported success
\* leaves no 'prices' pending row and a tracker row completed today, and a
\* reported failure leaves a 'prices' pending row and a failed tracker row
C28_LedgerAndTrackerMatchOutcome ==
    lastWave.op = "wave" =>
        /\ \A s \in lastWave.succeeded :
               /\ ~HasPending(pending, s, "prices")
               /\ tracker[s].status = "completed"
               /\ tracker[s].last_updated = day
        /\ \A s \in lastWave.failed :
               /\ HasPending(pending, s, "prices")
               /\ tracker[s].status = "failed"

\* C29: a pending row is deleted only in a step in which its operation
\* succeeded: new bars of the symbol were stored for a 'prices' row; the
\* fundamentals were fetched and the symbol has all attributes present for
\* an 'attributes' row
C29_RemovalImpliesSuccess ==
    [][\A s \in StockSet :
          /\ (HasPending(pending, s, "prices") /\ ~HasPending(pending', s, "prices")) =>
                 \E b \in tickerprice' \ tickerprice : b.stock = s
          /\ (HasPending(pending, s, "attributes")
                  /\ ~HasPending(pending', s, "attributes")) =>
                 /\ s \in lastBatch'.fetched
                 /\ _all_attributes_present(attrs', s)]_vars

\* C30: when the batch fetch of a wave fails as a whole, every symbol of the
\* wave is retried through the single-symbol path within the same wave
C30_AggregateFailureFallsBack ==
    (lastWave.op = "wave" /\ lastWave.aggregate) =>
        (lastWave.succeeded \cup lastWave.failed) \subseteq lastWave.retried

\* C31: after stop is signalled to a poller, the price poller enters no
\* further wave and the attribute poller enters no further batch, wherever
\* in the cycle the signal arrives: a price cycle that waits between two
\* waves with is_running false takes no wave, and an attribute cycle that
\* waits between two batches with is_running false takes no batch.
C31_StopPreventsNextWave ==
    [][/\ (~is_running /\ cyc.pc = "retry_wait") => lastWave'.op # "wave"
       /\ \A i \in Instances :
            (~apoll[i].is_running /\ acyc[i].pc = "between") =>
                ~(lastBatch'.op = "batch" /\ lastBatch'.inst = i)]_vars

\* C32: between any two consecutive evaluations of its run condition the
\* price poller task suspends: every pass of the polling loop that found
\* _should_run_price_update() true awaits a sleep before the loop evaluates
\* its condition again, so that a stop request is eventually observed.
C32_LoopSuspendsEveryPass ==
    [][(lastWave'.by = "loop" /\ lastWave'.op \in {"skip", "wave"}) =>
            lastWave'.suspended]_vars

\* C33: for each poller object, after any sequence of start and stop
\* requests (a stop followed by a start while the old loop is still
\* sleeping included), at most one polling loop is active at any time.
C33_AtMostOneLoop == \A k \in Pollers : polling_loops[k] <= 1

\* C34: a price update never inserts a bar whose (symbol, date) is already
\* stored: the bars the single-symbol path writes are the returned bars
\* minus the dates already present, and the price table keeps at most one
\* row per (symbol, date).
C34_WritesOnlyNewDates ==
    /\ single_result.called =>
            single_result.written = single_result.returned \ single_result.existing
    /\ \A s \in StockSet : \A d \in 0..MaxDay : price_rows[s][d] <= 1

\* C35: for each symbol, every bar inserted by a price update has a date
\* strictly later than every bar already stored for that symbol.
C35_InsertsAreDateMonotonic ==
    [][\A b \in tickerprice' \ tickerprice :
          \A c \in tickerprice : c.stock = b.stock => c.date < b.date]_vars

C38_InProgressIsRetried ==
    \A s \in SeqSet(stockmetadata) :
        tracker[s].status = "in_progress" =>
            \E d \in day..(MaxDay + 1) :
                s \in SeqSet(get_stocks_needing_update(stockmetadata, tracker, d))

\* the stocks an attribute cycle of replica i entered now has to process:
\* the pending backlog after ensure and cleanup, its shard, without the
\* exhausted stocks (nothing when the ledger has no active row)
CycleBacklog(i) ==
    IF get_pending_attribute_stocks(pending) = <<>> THEN <<>>
    ELSE LET p1 == ensure_missing_stocks_in_pending(pending, attrs, stockmetadata)
             p2 == cleanup_completed_attribute_stocks(p1, attrs)
             exhausted_stocks == SeqSet(get_exhausted_retry_stocks(p2, "attributes"))
         IN  SelectSeq(Shard(i, get_pending_attribute_stocks(p2)),
                       LAMBDA s : s \notin exhausted_stocks)

\* C39: a manually triggered attribute update without a symbol list
\* processes the non-exhausted pending attribute backlog, whether or not
\* the attribute polling loop is running: an attribute cycle that is entered
\* outside a cooldown with a backlog fetches stocks of it.
C39_ManualCycleProcessesBacklog ==
    [][\A i \in Instances :
          (UnpausedCycleStart(i) /\ CycleBacklog(i) # <<>>) =>
              (lastBatch'.op = "batch" /\ lastBatch'.fetched # {})]_vars

\* C40: for every current IST instant, NextMarketOpen() returns 09:15 IST
\* on a trading day (Monday to Friday), and that instant is the earliest
\* market open that is not already in the past.
C40_NextOpenIsEarliestTradingOpen ==
    market_decision.op = "get_next_market_open_time" =>
        LET open == market_decision.next_open
            upcoming(d) == /\ (ist.weekday + d) % 7 < 5
                           /\ (d > 0 \/ MARKET_OPEN_TIME >= ist.minute)
        IN  /\ open.minute = MARKET_OPEN_TIME
            /\ upcoming(open.days)
            /\ \A d \in 0..(open.days - 1) : ~upcoming(d)

====
